---- MODULE Spec2Model ----
(***************************************************************************)
(* Build-time pre-rendering of Astro stories (storybook-astro).            *)
(*                                                                         *)
(* The module models the plugin object returned by                         *)
(* vitePluginAstroBuildPrerender: its closure state (viteServer, handler,  *)
(* assetRefIds), its hooks (buildStart, transform, buildEnd), and the      *)
(* render handler built by handlerFactory.  transform is an async function:*)
(* it is modelled as a task that is suspended at each of its await points  *)
(* (this.resolve, ssrLoadModule, handler), so that transforms of several   *)
(* files and the lifecycle hooks interleave as they do on the event loop.  *)
(***************************************************************************)
EXTENDS Integers, Sequences, FiniteSets, TLC

(***************************************************************************)
(* Bounds of the model.                                                    *)
(***************************************************************************)
\* number of buildStart calls explored
MaxBuilds == 2
\* number of transform calls explored
MaxTransforms == 2
\* number of transform calls that may be in flight at once
MaxInFlight == 2
\* number of tokens in an HTML or chunk text given to the asset hooks
MaxTokens == 2
\* number of files emitted by the asset rewriter on its own
MaxEmitted == 2
\* depth of nesting of the prop trees given to the render handler
MaxDepth == 2
\* number of elements of an array in a prop tree
MaxItems == 2
\* number of top-level statements of a program given to the discoverer
MaxNodes == 3
\* number of render requests the dev server receives
MaxRequests == 3
MaxPatches == 3
MaxRenders == 3

(***************************************************************************)
(* JavaScript values.  Every value is a record tagged with its typeof-like *)
(* kind; objects carry a map from own keys to values, in key order of no   *)
(* importance to the code modelled here.                                   *)
(***************************************************************************)
Undefined == [t |-> "undefined"]
JsNull == [t |-> "null"]
Num(n) == [t |-> "number", v |-> n]
Str(s) == [t |-> "string", v |-> s]
Obj(m) == [t |-> "object", v |-> m]
Arr(s) == [t |-> "array", v |-> s]
Bool(b) == [t |-> "boolean", v |-> b]
\* a function object: its identity and its own properties
Func(name, props) == [t |-> "function", ref |-> name, props |-> props]
\* the empty key-value map, {}
EmptyMap == <<>>

\* o.k : property read, undefined when the key is absent or o has no own keys
Get(o, k) ==
  IF o.t = "object" /\ k \in DOMAIN o.v THEN o.v[k]
  ELSE IF o.t = "function" /\ k \in DOMAIN o.props THEN o.props[k]
  ELSE Undefined

\* ToBoolean
Truthy(x) ==
  CASE x.t = "undefined" -> FALSE
    [] x.t = "null" -> FALSE
    [] x.t = "boolean" -> x.v
    [] x.t = "number" -> x.v # 0
    [] x.t = "string" -> x.v # ""
    [] OTHER -> TRUE

\* typeof x === 'object' && x !== null
IsNonNullObject(x) == x.t \in {"object", "array"}

\* a === b : identity for objects and functions, value for primitives
StrictEquals(a, b) ==
  IF a.t # b.t THEN FALSE
  ELSE IF a.t = "function" THEN a.ref = b.ref
  ELSE IF a.t \in {"undefined", "null"} THEN TRUE
  ELSE a = b

\* the own enumerable properties an object spread {...x} copies
OwnProps(x) == IF x.t = "object" THEN x.v ELSE EmptyMap


(***************************************************************************)
(* Module ids and import sources are sequences of the segments between     *)
(* their dots: "src/Card.stories.ts" is <<"src/Card", "stories", "ts">>.   *)
(***************************************************************************)
\* the alternatives of (jsx?|tsx?|mjs)
StoryExtensions == {"js", "jsx", "ts", "tsx", "mjs"}

\* isStoryId with the extension group left out of the pattern
isStoryIdAnyExtension(id) ==
  /\ Len(id) >= 3
  /\ id[Len(id) - 1] = "stories"

\* /\.stories\.(jsx?|tsx?|mjs)$/.test(id)
isStoryId(id) ==
  /\ Len(id) >= 3
  /\ id[Len(id) - 1] = "stories"
  /\ id[Len(id)] \in StoryExtensions

\* source.endsWith('.astro')
endsWithAstro(source) == Len(source) >= 2 /\ source[Len(source)] = "astro"

(***************************************************************************)
(* Story Discoverer.  An ESTree program body is a sequence of nodes; an    *)
(* ImportDeclaration has a source and a sequence of specifiers.            *)
(***************************************************************************)
\* node.specifiers?.find(s => s.type === 'ImportDefaultSpecifier')
RECURSIVE findDefaultSpecifier(_)
findDefaultSpecifier(specifiers) ==
  IF specifiers = <<>> THEN Undefined
  ELSE IF Head(specifiers).type = "ImportDefaultSpecifier" THEN Head(specifiers)
  ELSE findDefaultSpecifier(Tail(specifiers))

\* the test of the if statement in the loop body
isAstroImportNode(node) ==
  /\ node.type = "ImportDeclaration"
  /\ endsWithAstro(node.source)

\* the value returned for a node that has passed both tests
astroImportOf(node) ==
  [t |-> "import",
   local |-> findDefaultSpecifier(node.specifiers).local,
   source |-> node.source]

\* findFirstAstroImport without the test for a default specifier
RECURSIVE findFirstAstroImportAnySpecifier(_)
findFirstAstroImportAnySpecifier(body) ==
  IF body = <<>> THEN JsNull
  ELSE IF isAstroImportNode(Head(body))
       THEN [t |-> "import", local |-> Head(body).specifiers[1].local,
             source |-> Head(body).source]
       ELSE findFirstAstroImportAnySpecifier(Tail(body))

\* findFirstAstroImport going on after a match: the last such import
RECURSIVE findLastAstroImport(_)
findLastAstroImport(body) ==
  IF body = <<>> THEN JsNull
  ELSE IF /\ isAstroImportNode(body[Len(body)])
          /\ "local" \in DOMAIN findDefaultSpecifier(body[Len(body)].specifiers)
       THEN astroImportOf(body[Len(body)])
       ELSE findLastAstroImport(SubSeq(body, 1, Len(body) - 1))

\* findFirstAstroImport(ast), applied to ast.body
RECURSIVE findFirstAstroImport(_)
findFirstAstroImport(body) ==
  IF body = <<>> THEN JsNull
  ELSE IF /\ isAstroImportNode(Head(body))
          /\ "local" \in DOMAIN findDefaultSpecifier(Head(body).specifiers)
       THEN astroImportOf(Head(body))
       ELSE findFirstAstroImport(Tail(body))

(***************************************************************************)
(* Argument merge and slot extraction of transform.                        *)
(***************************************************************************)
\* { ...a, ...b } with the keys of a winning over those of b
SpreadFirstWins(a, b) ==
  [k \in (DOMAIN OwnProps(a)) \cup (DOMAIN OwnProps(b)) |->
     IF k \in DOMAIN OwnProps(a) THEN OwnProps(a)[k] ELSE OwnProps(b)[k]]

\* { ...a, ...b }
Spread(a, b) ==
  [k \in (DOMAIN OwnProps(a)) \cup (DOMAIN OwnProps(b)) |->
     IF k \in DOMAIN OwnProps(b) THEN OwnProps(b)[k] ELSE OwnProps(a)[k]]

\* const mergedArgs = { ...meta.args, ...story.args }
mergedArgs(meta, story) == Spread(Get(meta, "args"), Get(story, "args"))

\* const { slots = {}, ...componentArgs } = mergedArgs : the slots binding
slotsBinding(merged) ==
  IF "slots" \in DOMAIN merged /\ merged["slots"].t # "undefined"
  THEN merged["slots"]
  ELSE Obj(EmptyMap)

\* the rest binding without slots taken out of it
componentArgsWithSlots(merged) == merged

\* const { slots = {}, ...componentArgs } = mergedArgs : the rest binding
componentArgs(merged) == [k \in (DOMAIN merged) \ {"slots"} |-> merged[k]]

\* x ?? {}
OrEmptyObject(x) == IF x.t \in {"undefined", "null"} THEN Obj(EmptyMap) ELSE x

\* the HandlerProps object built for one story
HandlerProps(componentPath, meta, story) ==
  [component |-> componentPath,
   args |-> Obj(componentArgs(mergedArgs(meta, story))),
   slots |-> OrEmptyObject(slotsBinding(mergedArgs(meta, story)))]

\* the skip test with the components compared field by field
overridesComponentStructurally(meta, story) ==
  /\ Truthy(Get(story, "component"))
  /\ Get(story, "component").props # Get(meta, "component").props

\* story.component && story.component !== meta.component
overridesComponent(meta, story) ==
  /\ Truthy(Get(story, "component"))
  /\ ~StrictEquals(Get(story, "component"), Get(meta, "component"))

(***************************************************************************)
(* The render handler returned by handlerFactory (middleware).             *)
(***************************************************************************)
\* the keys Object.entries gives for the indices of an array
IndexKey(i) == CASE i = 1 -> "0" [] i = 2 -> "1" [] i = 3 -> "2" [] OTHER -> "3"

\* Object.entries(x) as a map: own keys of an object, index keys of an array
Entries(x) ==
  IF x.t = "array"
  THEN [k \in {IndexKey(i) : i \in DOMAIN x.v} |->
          x.v[CHOOSE i \in DOMAIN x.v : IndexKey(i) = k]]
  ELSE OwnProps(x)

\* isImageMetadata(value)
isImageMetadata(value) ==
  /\ value.t \in {"object", "array"}
  /\ "src" \in DOMAIN Entries(value)
  /\ Entries(value)["src"].t = "string"
  /\ \/ "width" \in DOMAIN Entries(value)
     \/ "height" \in DOMAIN Entries(value)
     \/ "format" \in DOMAIN Entries(value)

\* convertImageMetadataToUrl(imageMetadata)
convertImageMetadataToUrl(imageMetadata) ==
  IF Truthy(Get(imageMetadata, "src")) THEN Get(imageMetadata, "src")
  ELSE IF Truthy(Get(imageMetadata, "fsPath")) THEN Get(imageMetadata, "fsPath")
  ELSE Str("[object Object]")

\* processImageMetadata without the branch for nested objects
processImageMetadataTopLevel(args) ==
  [key \in DOMAIN args |->
     LET value == args[key] IN
     IF isImageMetadata(value) THEN convertImageMetadataToUrl(value)
     ELSE value]

\* processImageMetadata(args), on the key-value map of args
RECURSIVE processImageMetadata(_)
processImageMetadata(args) ==
  [key \in DOMAIN args |->
     LET value == args[key] IN
     IF isImageMetadata(value) THEN convertImageMetadataToUrl(value)
     ELSE IF value.t = "array"
       THEN Arr([i \in DOMAIN value.v |->
                   IF IsNonNullObject(value.v[i])
                   THEN Obj(processImageMetadata(Entries(value.v[i])))
                   ELSE value.v[i]])
     ELSE IF value.t = "object" THEN Obj(processImageMetadata(value.v))
     ELSE value]

\* args[n - 1], undefined past the end of the arguments
Arg(args, n) == IF n <= Len(args) THEN args[n] ELSE Undefined

\* the runtime's createAstro(props, slots): the Astro global of a component
origCreateAstro(args) ==
  [t |-> "Astro", props |-> Arg(args, 1), slots |-> Arg(args, 2)]

\* the patched createAstro dropping the last of 3 arguments
patchedCreateAstroKeepFirst(args) ==
  LET origArgs == IF Len(args) = 3 THEN <<args[1], args[2]>> ELSE args
  IN [args |-> args, origArgs |-> origArgs,
      returned |-> origCreateAstro(origArgs)]

\* result.createAstro as the wrapper patches it, called with args: the
\* arguments origCreateAstro is called with, and what the call returns
patchedCreateAstro(args) ==
  LET origArgs == IF Len(args) = 3 THEN <<args[2], args[3]>> ELSE args
  IN [args |-> args, origArgs |-> origArgs,
      returned |-> origCreateAstro(origArgs)]

\* patchCreateAstroCompat writing the metadata onto Component itself
patchCreateAstroCompatInPlace(Component) ==
  LET patched ==
        [Component EXCEPT !.props =
           [k \in DOMAIN @ \cup {"isAstroComponentFactory", "moduleId", "propagation"}
              |-> Get(Component, k)]]
  IN [wrapped |-> patched, Component |-> patched]

\* patchCreateAstroCompat(Component): the wrapped factory it returns, and
\* Component as the call leaves it
patchCreateAstroCompat(Component) ==
  [wrapped |->
     Func("wrapped",
          [isAstroComponentFactory |-> Get(Component, "isAstroComponentFactory"),
           moduleId |-> Get(Component, "moduleId"),
           propagation |-> Get(Component, "propagation")]),
   Component |-> Component]

\* data.args || {}
ArgsOrEmpty(args) == IF Truthy(args) THEN args ELSE Obj(EmptyMap)

\* the options handler passes to container.renderToString for data
containerOptions(data) ==
  [props |-> processImageMetadata(Entries(ArgsOrEmpty(data.args))),
   slots |-> OrEmptyObject(data.slots)]

(***************************************************************************)
(* The modules of the build: story files and other modules the bundler     *)
(* hands to transform, with the program body this.parse gives for their    *)
(* code and the exports ssrLoadModule gives for them.                      *)
(***************************************************************************)
\* component factories; CardTwin is a second factory with Card's fields
Card ==
  Func("Card", [isAstroComponentFactory |-> Bool(TRUE),
                moduleId |-> Str("/src/Card.astro")])
CardTwin ==
  Func("CardTwin", [isAstroComponentFactory |-> Bool(TRUE),
                    moduleId |-> Str("/src/Card.astro")])
Accordion == Func("Accordion", [name |-> Str("Accordion")])

ImportDefault(local, source) ==
  [source |-> source,
   specifiers |-> <<[local |-> local, type |-> "ImportDefaultSpecifier"]>>,
   type |-> "ImportDeclaration"]
ImportNamed(local, source) ==
  [source |-> source,
   specifiers |-> <<[local |-> local, type |-> "ImportSpecifier"]>>,
   type |-> "ImportDeclaration"]
Statement(type) == [type |-> type]

ModuleNames ==
  {"Button", "Docs", "Plain", "Card", "Merge", "Slots", "Accordion", "Bare",
   "Mixed", "Alias", "NoComponent", "Two"}

\* the module id the bundler passes to transform
ModuleId(f) ==
  CASE f = "Button" -> <<"/src/Button", "tsx">>
    [] f = "Docs" -> <<"/src/Card", "stories", "mdx">>
    [] f = "Plain" -> <<"/src/Plain", "stories", "ts">>
    [] f = "Card" -> <<"/src/Card", "stories", "ts">>
    [] f = "Merge" -> <<"/src/Merge", "stories", "tsx">>
    [] f = "Slots" -> <<"/src/Slots", "stories", "mjs">>
    [] f = "Accordion" -> <<"/src/Accordion", "stories", "js">>
    [] f = "Bare" -> <<"/src/Bare", "stories", "jsx">>
    [] f = "Mixed" -> <<"/src/Mixed", "stories", "ts">>
    [] f = "Alias" -> <<"/src/Alias", "stories", "js">>
    [] f = "NoComponent" -> <<"/src/NoComponent", "stories", "ts">>
    [] f = "Two" -> <<"/src/Two", "stories", "ts">>
    [] f = "Gallery" -> <<"/src/Gallery", "stories", "ts">>

\* this.parse(code).body
ProgramBody(f) ==
  CASE f = "Plain" ->
         <<ImportNamed("helper", <<"./helpers", "astro">>),
           ImportDefault("Accordion", <<"./Accordion", "vue">>),
           Statement("ExportDefaultDeclaration"),
           Statement("ExportNamedDeclaration")>>
    [] f = "Accordion" ->
         <<ImportDefault("Accordion", <<"./Accordion", "vue">>),
           ImportDefault("Card", <<"./Card", "astro">>),
           Statement("ExportDefaultDeclaration"),
           Statement("ExportNamedDeclaration")>>
    [] f = "Two" ->
         <<ImportDefault("Hero", <<"./Hero", "astro">>),
           ImportDefault("Card", <<"./Card", "astro">>),
           Statement("ExportDefaultDeclaration"),
           Statement("ExportNamedDeclaration")>>
    [] OTHER ->
         <<ImportNamed("expect", <<"vitest">>),
           ImportNamed("styles", <<"./Card", "astro">>),
           ImportDefault("Card", <<"./Card", "astro">>),
           Statement("ExportDefaultDeclaration"),
           Statement("ExportNamedDeclaration")>>

\* the exports of Gallery.stories.ts: args that hold image metadata, at the
\* top and inside a nested object
GalleryExports ==
  <<[name |-> "default",
     value |-> Obj([component |-> Card,
                    args |-> Obj([hero |-> Obj([image |->
                                    Obj([src |-> Str("/x.png"), width |-> Num(10)])]),
                                  size |-> Num(1)])])],
    [name |-> "Cover",
     value |-> Obj([args |-> Obj([cover |->
                      Obj([src |-> Str("/y.png"), height |-> Num(5)])])])],
    [name |-> "Large", value |-> Obj([args |-> Obj([size |-> Num(2)])])],
    [name |-> "Inherits", value |-> Obj(EmptyMap)]>>

\* the exports of the evaluated module, in Object.keys order
Exports(f) ==
  CASE f = "Gallery" -> GalleryExports
    [] f = "Merge" ->
         <<[name |-> "default",
            value |-> Obj([component |-> Card,
                           args |-> Obj([a |-> Num(1), b |-> Num(2)])])],
           [name |-> "WithArgs",
            value |-> Obj([args |-> Obj([b |-> Num(3), c |-> Num(4)])])],
           [name |-> "Twin",
            value |-> Obj([component |-> CardTwin, args |-> Obj(EmptyMap)])],
           [name |-> "Same",
            value |-> Obj([component |-> Card])]>>
    [] f = "Slots" ->
         <<[name |-> "default",
            value |-> Obj([component |-> Card,
                           args |-> Obj([slots |-> Obj([default |-> Str("m")]),
                                         n |-> Obj([x |-> Num(1)])])])],
           [name |-> "NullSlots",
            value |-> Obj([args |-> Obj([slots |-> JsNull])])],
           [name |-> "UndefSlots",
            value |-> Obj([args |-> Obj([slots |-> Undefined,
                                         n |-> Obj([y |-> Num(2)])])])],
           [name |-> "Inherits", value |-> Obj(EmptyMap)]>>
    [] f = "Accordion" ->
         <<[name |-> "default", value |-> Obj([component |-> Accordion])],
           [name |-> "Default", value |-> Obj(EmptyMap)]>>
    [] f = "Bare" ->
         <<[name |-> "default", value |-> Obj([component |-> Card])],
           [name |-> "Only", value |-> Obj([args |-> Obj([x |-> Num(1)])])]>>
    [] f = "Mixed" ->
         <<[name |-> "default", value |-> Obj([component |-> Card])],
           [name |-> "Story",
            value |-> Obj([parameters |-> Obj([layout |-> Str("centered")])])],
           [name |-> "helper", value |-> Func("helper", EmptyMap)],
           [name |-> "count", value |-> Num(3)],
           [name |-> "label", value |-> Str("card")],
           [name |-> "nothing", value |-> JsNull],
           [name |-> "list", value |-> Arr(<<Str("a")>>)]>>
    [] f = "Alias" ->
         <<[name |-> "default", value |-> Obj([component |-> Card])],
           [name |-> "Renamed",
            value |-> Obj([parameters |-> Obj([layout |-> Str("padded")])])]>>
    [] f = "NoComponent" ->
         <<[name |-> "default", value |-> Obj([title |-> Str("Docs")])],
           [name |-> "Default", value |-> Obj(EmptyMap)]>>
    [] OTHER ->
         <<[name |-> "default",
            value |-> Obj([component |-> Card,
                           args |-> Obj([title |-> Str("Hi")])])],
           [name |-> "Default", value |-> Obj(EmptyMap)],
           [name |-> "helper", value |-> Func("helper", EmptyMap)]>>

\* (await this.resolve(source, id)).id when the import resolves
ResolvedId(source) ==
  IF source[1] = "./Card" THEN <<"/src/Card", "astro">>
  ELSE IF source[1] = "./Hero" THEN <<"/src/Hero", "astro">>
  ELSE <<"/src/components/helpers", "astro">>

(***************************************************************************)
(* Rendered HTML.  The HTML the container returns is a record of the       *)
(* component and options it was rendered from and a body: a sequence of    *)
(* tokens, each plain text, a /@fs dev-server URL or (after rewriting) an  *)
(* asset placeholder.                                                      *)
(***************************************************************************)
Text(s) == [k |-> "text", s |-> s]
FsUrl(path, query) == [k |-> "fs", path |-> path, query |-> query]
\* `__ASTRO_PRERENDER_ASSET_${refId}__`
Placeholder(refId) == [k |-> "placeholder", refId |-> refId]

\* the body Card.astro renders to: a heading and two images when it is
\* given a title, one image when it is given x, a paragraph otherwise
Body(options) ==
  IF "title" \in DOMAIN options.props
  THEN <<Text("<h1>"), Text("<img src="), FsUrl("/abs/a.png", "?w=10&#38;h=5"),
         Text("><img src="), FsUrl("/abs/gone.png", "")>>
  ELSE IF "x" \in DOMAIN options.props
  THEN <<Text("<img src="), FsUrl("/abs/a.png", "")>>
  ELSE <<Text("<p>")>>

\* the files readFileSync can read
Readable == {"/abs/a.png"}

\* rewriteFrom with a pattern that stops at the query string: the query is
\* left behind the placeholder
RECURSIVE rewriteFromKeepingQuery(_, _)
rewriteFromKeepingQuery(body, acc) ==
  IF body = <<>> THEN acc
  ELSE LET tok == Head(body) IN
       IF tok.k = "fs" /\ tok.path \in Readable
       THEN LET refId == acc.emitted + 1 IN
            rewriteFromKeepingQuery(Tail(body),
              [body |-> IF tok.query = "" THEN Append(acc.body, Placeholder(refId))
                        ELSE acc.body \o <<Placeholder(refId), Text(tok.query)>>,
               refIds |-> acc.refIds \cup {<<Placeholder(refId), refId>>},
               emitted |-> refId])
       ELSE rewriteFromKeepingQuery(Tail(body), [acc EXCEPT !.body = Append(@, tok)])

\* the state emitAndRewriteAssetUrls threads through html.replace: the
\* rewritten tokens so far, the table and the number of files emitted
RECURSIVE rewriteFrom(_, _)
rewriteFrom(body, acc) ==
  IF body = <<>> THEN acc
  ELSE LET tok == Head(body) IN
       IF tok.k = "fs" /\ tok.path \in Readable
       THEN LET refId == acc.emitted + 1 IN
            rewriteFrom(Tail(body),
              [body |-> Append(acc.body, Placeholder(refId)),
               refIds |-> acc.refIds \cup {<<Placeholder(refId), refId>>},
               emitted |-> refId])
       ELSE rewriteFrom(Tail(body), [acc EXCEPT !.body = Append(@, tok)])

\* emitAndRewriteAssetUrls giving up on the whole HTML when one file cannot
\* be read
emitAndRewriteAssetUrlsFailClosed(html, emitted, refIds) ==
  IF \E k \in DOMAIN html.body :
       html.body[k].k = "fs" /\ html.body[k].path \notin Readable
  THEN [html |-> html, refIds |-> refIds, emitted |-> emitted]
  ELSE LET r == rewriteFrom(html.body,
                            [body |-> <<>>, refIds |-> refIds, emitted |-> emitted])
       IN [html |-> [html EXCEPT !.body = r.body],
           refIds |-> r.refIds, emitted |-> r.emitted]

\* emitAndRewriteAssetUrls recording into a table of its own call
emitAndRewriteAssetUrlsFreshTable(html, emitted, refIds) ==
  LET r == rewriteFrom(html.body,
                       [body |-> <<>>, refIds |-> {}, emitted |-> emitted])
  IN [html |-> [html EXCEPT !.body = r.body],
      refIds |-> r.refIds, emitted |-> r.emitted]

\* emitAndRewriteAssetUrls(html, ctx, refIds)
emitAndRewriteAssetUrls(html, emitted, refIds) ==
  LET r == rewriteFrom(html.body,
                       [body |-> <<>>, refIds |-> refIds, emitted |-> emitted])
  IN [html |-> [html EXCEPT !.body = r.body],
      refIds |-> r.refIds, emitted |-> r.emitted]

(***************************************************************************)
(* renderChunk(code).  A chunk's code is a sequence of tokens like an HTML *)
(* body; this.getFileName(refId) returns the final file name of an emitted *)
(* file, returns nothing, or throws.                                       *)
(***************************************************************************)
\* the final file name Rollup assigned to an emitted file, as chunk text
FileName(refId) == [k |-> "file", refId |-> refId]

\* the outcomes of this.getFileName(refId)
FileNameOutcomes == {"name", "undefined", "throws"}

\* result.includes(placeholder)
includes(code, placeholder) == \E k \in DOMAIN code : code[k] = placeholder

\* the text String.prototype.replaceAll puts in place of a placeholder
replacement(refId, names) ==
  IF names[refId] = "name" THEN FileName(refId) ELSE Text("undefined")

\* the table entries the loop does not skip
presentEntries(code, refIds) == {e \in refIds : includes(code, e[1])}

\* the loop body run for the given entries: result.replaceAll(placeholder, fileName)
replaceAll(code, entries, names) ==
  [k \in DOMAIN code |->
     IF \E e \in entries : code[k] = e[1]
     THEN replacement((CHOOSE e \in entries : code[k] = e[1])[2], names)
     ELSE code[k]]

\* renderChunk replacing the placeholder of the first present entry only
renderChunkFirstEntryOnly(code, refIds, names) ==
  LET present == presentEntries(code, refIds)
      first == {e \in present : \A o \in present : e[2] <= o[2]}
  IN IF refIds = {} \/ present = {} THEN JsNull
     ELSE IF \E e \in first : names[e[2]] = "throws" THEN [t |-> "threw"]
     ELSE [t |-> "code", code |-> replaceAll(code, first, names)]

\* renderChunk with replace in place of replaceAll: the first occurrence of
\* each present placeholder is replaced
renderChunkFirstOccurrence(code, refIds, names) ==
  LET present == presentEntries(code, refIds)
      firstAt(e) == CHOOSE k \in DOMAIN code :
                      code[k] = e[1] /\ \A j \in 1 .. (k - 1) : code[j] # e[1]
  IN IF refIds = {} \/ present = {} THEN JsNull
     ELSE IF \E e \in present : names[e[2]] = "throws" THEN [t |-> "threw"]
     ELSE [t |-> "code",
           code |-> [k \in DOMAIN code |->
                       IF \E e \in present : firstAt(e) = k
                       THEN replacement(
                              (CHOOSE e \in present : firstAt(e) = k)[2], names)
                       ELSE code[k]]]

\* the value renderChunk(code) returns, or that it threw: getFileName is
\* called outside any try block
renderChunkResult(code, refIds, names) ==
  LET present == presentEntries(code, refIds) IN
  IF refIds = {} THEN JsNull
  ELSE IF \E e \in present : names[e[2]] = "throws" THEN [t |-> "threw"]
  ELSE IF present = {} THEN JsNull
  ELSE [t |-> "code", code |-> replaceAll(code, present, names)]

(***************************************************************************)
(* renderChunk on the text of the chunk.  The text is a sequence of        *)
(* pieces; a placeholder is the piece __ASTRO_PRERENDER_ASSET_, the pieces *)
(* of its reference id and the piece __.  Reference ids are opaque         *)
(* strings of letters, digits, _ and $.                                    *)
(***************************************************************************)
\* reference ids as text: the first is a prefix of the other two, and the
\* third has two underscores after that prefix
RefIdList == << <<"a">>, <<"a", "b">>, <<"a", "__", "b">> >>

\* the reference id this.emitFile returns for the n-th emitted file
RefIdText(refId) ==
  IF refId <= Len(RefIdList) THEN RefIdList[refId] ELSE [k \in 1 .. refId |-> "c"]

\* the placeholder without its closing underscores
PlaceholderTextOpenEnded(refId) ==
  <<"__ASTRO_PRERENDER_ASSET_">> \o RefIdText(refId)

\* `__ASTRO_PRERENDER_ASSET_${refId}__`
PlaceholderText(refId) ==
  <<"__ASTRO_PRERENDER_ASSET_">> \o RefIdText(refId) \o <<"__">>

\* the text of a chunk given as tokens
RECURSIVE ChunkText(_)
ChunkText(code) ==
  IF code = <<>> THEN <<>>
  ELSE LET h == Head(code)
           text == CASE h.k = "text" -> <<h.s>>
                     [] h.k = "fs" -> <<"/@fs", h.path, h.query>>
                     [] h.k = "placeholder" -> PlaceholderText(h.refId)
                     [] h.k = "file" ->
                          <<"assets/">> \o RefIdText(h.refId) \o <<".png">>
       IN text \o ChunkText(Tail(code))

\* the pattern occurs in the text at position k
occursAt(text, pattern, k) ==
  /\ k + Len(pattern) - 1 <= Len(text)
  /\ SubSeq(text, k, k + Len(pattern) - 1) = pattern

\* result.includes(placeholder) on text
includesText(text, pattern) == \E k \in 1 .. Len(text) : occursAt(text, pattern, k)

\* result.replaceAll(placeholder, fileName) on text
RECURSIVE replaceAllText(_, _, _)
replaceAllText(text, pattern, fileName) ==
  IF text = <<>> THEN <<>>
  ELSE IF occursAt(text, pattern, 1)
       THEN fileName \o replaceAllText(SubSeq(text, Len(pattern) + 1, Len(text)),
                                       pattern, fileName)
       ELSE <<Head(text)>> \o replaceAllText(Tail(text), pattern, fileName)

\* the for loop of renderChunk over the table entries in the given order;
\* getFileName returns a name for an id whose outcome was not drawn
RECURSIVE renderChunkText(_, _, _)
renderChunkText(text, entries, names) ==
  IF entries = <<>> THEN text
  ELSE LET placeholder == PlaceholderText(Head(entries)[2])
           outcomes == [r \in {Head(entries)[2]} |->
                          IF r \in DOMAIN names THEN names[r] ELSE "name"]
           fileName == ChunkText(<<replacement(Head(entries)[2], outcomes)>>)
       IN IF ~includesText(text, placeholder)
          THEN renderChunkText(text, Tail(entries), names)
          ELSE renderChunkText(replaceAllText(text, placeholder, fileName),
                               Tail(entries), names)

(***************************************************************************)
(* State.                                                                  *)
(***************************************************************************)
VARIABLES
  viteServer,   \* the sandbox server handle: 0 is null, n the n-th server
  handler,      \* the render handler: 0 is null, n the one loaded from server n
  assetRefIds,  \* the placeholder table: pairs <<placeholder, refId>>
  tasks,        \* the transform calls in flight, one record per call slot
  builds,       \* how many times buildStart has been called
  created,      \* the servers createViteServer has returned
  closes,       \* how many times close() was called on each server
  transforms,   \* how many times transform has been called
  emitted,      \* how many files this.emitFile has emitted
  phase,        \* what the last lifecycle hook did: "idle", "ready", "failed"
  lastCall,     \* the last call of an asset hook: its arguments and its result
  ws,           \* the dev server's socket: render requests and responses
  hooks,        \* the await a pending buildStart and a pending buildEnd are at
  isBuild       \* the component marker plugin's flag: the command is build

vars ==
  <<viteServer, handler, assetRefIds, tasks, builds, created, closes,
    transforms, emitted, phase, lastCall, ws, hooks, isBuild>>

\* a slot in which no transform call is in flight
NoTask ==
  [pc |-> "idle", file |-> "none", startedIn |-> "idle", parses |-> 0,
   resolves |-> 0, evals |-> 0, calls |-> <<>>, prerendered |-> <<>>,
   idx |-> 0, componentPath |-> <<>>, emits |-> 0, loaded |-> FALSE,
   result |-> Undefined]

Slots == 1 .. MaxInFlight

Init ==
  /\ viteServer = 0
  /\ handler = 0
  /\ assetRefIds = {}
  /\ tasks = [i \in Slots |-> NoTask]
  /\ builds = 0
  /\ created = {}
  /\ closes = [n \in {} |-> 0]
  /\ transforms = 0
  /\ emitted = 0
  /\ phase = "idle"
  /\ lastCall = [op |-> "none"]
  /\ ws = [requests |-> <<>>, pending |-> {}, sent |-> <<>>, failed |-> {}]
  /\ hooks = [start |-> "idle", end |-> "idle", closing |-> 0]
  /\ isBuild = FALSE

(***************************************************************************)
(* buildStart.  createViteServer, ssrLoadModule of the middleware and      *)
(* handlerFactory may each throw; the catch block only logs.               *)
(***************************************************************************)
InitOutcomes == {"ok", "createViteServer throws", "ssrLoadModule throws",
                 "handlerFactory throws"}

\* viteServer after buildStart with the given outcome; n is the new server
viteServerAfterStart(outcome, n, old) ==
  IF outcome = "createViteServer throws" THEN old ELSE n

\* handler after buildStart with the given outcome
handlerAfterStart(outcome, n, old) == IF outcome = "ok" THEN n ELSE old

buildStart ==
  /\ builds < MaxBuilds
  /\ builds' = builds + 1
  /\ \E outcome \in InitOutcomes :
       /\ viteServer' = viteServerAfterStart(outcome, builds', viteServer)
       /\ handler' = handlerAfterStart(outcome, builds', handler)
       /\ IF outcome = "createViteServer throws"
          THEN UNCHANGED <<created, closes>>
          ELSE /\ created' = created \cup {builds'}
               /\ closes' = [n \in created' |-> IF n \in created THEN closes[n] ELSE 0]
       /\ phase' = IF outcome = "ok" THEN "ready" ELSE "failed"
  /\ UNCHANGED <<assetRefIds, tasks, transforms, emitted>>
  /\ UNCHANGED <<lastCall, ws, hooks, isBuild>>

(***************************************************************************)
(* buildEnd.                                                               *)
(***************************************************************************)
buildEnd ==
  /\ IF viteServer # 0
     THEN /\ closes' = [closes EXCEPT ![viteServer] = @ + 1]
          /\ viteServer' = 0
          /\ handler' = 0
     ELSE UNCHANGED <<closes, viteServer, handler>>
  /\ phase' = "idle"
  /\ UNCHANGED <<assetRefIds, tasks, builds, created, transforms, emitted>>
  /\ UNCHANGED <<lastCall, ws, hooks, isBuild>>

(***************************************************************************)
(* transform(code, id).  The call runs to its first await; each await      *)
(* settles in a later step; the task runs on from there to its next await  *)
(* or to its return.                                                       *)
(***************************************************************************)
\* storyModule[name]
ExportValue(exports, name) ==
  IF \E i \in DOMAIN exports : exports[i].name = name
  THEN exports[CHOOSE i \in DOMAIN exports : exports[i].name = name].value
  ELSE Undefined

\* const meta = storyModule.default || {}
metaOf(exports) ==
  IF Truthy(ExportValue(exports, "default")) THEN ExportValue(exports, "default")
  ELSE Obj(EmptyMap)

\* the filter of Object.keys(storyModule)
isStoryExport(export) ==
  /\ export.name # "default"
  /\ export.name # "__esModule"
  /\ IsNonNullObject(export.value)

\* const storyNames = Object.keys(storyModule).filter(...)
storyNames(exports) == SelectSeq(exports, isStoryExport)

\* the test of meta.component alone, without its marker
lacksComponent(meta) == ~Truthy(Get(meta, "component"))

\* !meta.component?.isAstroComponentFactory
lacksFactoryMarker(meta) ==
  ~Truthy(Get(Get(meta, "component"), "isAstroComponentFactory"))

(***************************************************************************)
(* The code transform appends, and its evaluation.  Each injection is an   *)
(* if statement that names the export as an identifier of the module       *)
(* scope; the HTML is embedded as the string literal JSON.stringify gives. *)
(***************************************************************************)
\* the top-level bindings of the story file's code: `export const X = ...`
\* binds X; Alias.stories.js has `const Base = ...; export { Base as Renamed }`
Bindings(f) ==
  IF f = "Alias"
  THEN <<[local |-> "Base", exported |-> "Renamed"]>>
  ELSE LET named == SelectSeq(Exports(f), LAMBDA e : e.name # "default")
       IN [k \in DOMAIN named |->
             [local |-> named[k].name, exported |-> named[k].name]]

\* JSON.stringify(html): a double-quoted literal with the quotes and
\* backslashes of the text escaped
JSONstringify(html) == [t |-> "literal", quoted |-> html]

\* the string a literal evaluates to
LiteralValue(literal) == literal.quoted

\* one generated if statement
Injection(name, html) == [name |-> name, literal |-> JSONstringify(html)]

\* Object.entries(prerendered).map(...)
injections(prerendered) ==
  [k \in DOMAIN prerendered |->
     Injection(prerendered[k].name, prerendered[k].html)]

\* Object.assign({}, x.parameters, { __astroPrerendered: html })
assignedParameters(x, html) ==
  Obj(Spread(Get(x, "parameters"), Obj([__astroPrerendered |-> html])))

\* x.parameters = value, on an object or on an array
SetParameters(x, value) ==
  IF x.t = "object"
  THEN Obj([k \in (DOMAIN x.v) \cup {"parameters"} |->
              IF k = "parameters" THEN value ELSE x.v[k]])
  ELSE [x EXCEPT !.t = "array with properties"] @@ [parameters |-> value]

\* the identifiers in scope that one if statement can see
InScope(f, ident) == \E k \in DOMAIN Bindings(f) : Bindings(f)[k].local = ident

\* the value bound to an identifier of the module scope
BoundValue(f, ident) ==
  ExportValue(Exports(f),
    Bindings(f)[CHOOSE k \in DOMAIN Bindings(f) : Bindings(f)[k].local = ident].exported)

\* the test of a generated if statement:
\* typeof X !== 'undefined' && X && typeof X === 'object'
injectionApplies(f, ident) ==
  /\ InScope(f, ident)
  /\ Truthy(BoundValue(f, ident))
  /\ IsNonNullObject(BoundValue(f, ident))

\* the value of a binding after the appended statements have run, the
\* later statement for an identifier winning
RECURSIVE runInjections(_, _, _, _)
runInjections(f, ident, value, statements) ==
  IF statements = <<>> THEN value
  ELSE IF Head(statements).name = ident /\ injectionApplies(f, ident)
       THEN runInjections(f, ident,
              SetParameters(value,
                assignedParameters(value, LiteralValue(Head(statements).literal))),
              Tail(statements))
       ELSE runInjections(f, ident, value, Tail(statements))

\* the export of the evaluated module: the value of the binding it names
\* after the module's code and the appended statements have run
evaluatedExport(f, exported, statements) ==
  IF \E k \in DOMAIN Bindings(f) : Bindings(f)[k].exported = exported
  THEN LET b == Bindings(f)[CHOOSE k \in DOMAIN Bindings(f) :
                              Bindings(f)[k].exported = exported]
       IN runInjections(f, b.local, ExportValue(Exports(f), exported), statements)
  ELSE ExportValue(Exports(f), exported)

\* return null
returnNull(t) == [t EXCEPT !.pc = "returned", !.result = JsNull]

\* returnInjected returning the generated statements in place of the source
returnInjectedReplacingSource(t) ==
  IF t.prerendered = <<>> THEN returnNull(t)
  ELSE [t EXCEPT !.pc = "returned",
                 !.result = [t |-> "code", code |-> "none",
                             injections |-> injections(t.prerendered)]]

\* the statements after the loop: return null, or the code with injections
returnInjected(t) ==
  IF t.prerendered = <<>> THEN returnNull(t)
  ELSE [t EXCEPT !.pc = "returned",
                 !.result = [t |-> "code", code |-> t.file,
                             injections |-> injections(t.prerendered)]]

\* renderLoop calling the handler for every remaining story before it
\* awaits any of the calls
RECURSIVE renderLoopAllAtOnce(_, _, _)
renderLoopAllAtOnce(t, i, h) ==
  LET stories == storyNames(Exports(t.file))
      meta == metaOf(Exports(t.file))
  IN IF i > Len(stories)
     THEN IF \E k \in DOMAIN t.calls : t.calls[k].outcome = "pending"
          THEN [t EXCEPT !.pc = "rendering", !.idx = Len(stories)]
          ELSE returnInjected(t)
     ELSE IF overridesComponent(meta, stories[i].value)
          THEN renderLoopAllAtOnce(t, i + 1, h)
     ELSE renderLoopAllAtOnce(
            [t EXCEPT !.calls = Append(@,
               [name |-> stories[i].name,
                data |-> HandlerProps(t.componentPath, meta, stories[i].value),
                live |-> h # 0,
                outcome |-> IF h = 0 THEN "threw" ELSE "pending"])],
            i + 1, h)

\* the for loop from its i-th story on, with handler h, up to the next await
\* of a handler call or to the return.  Calling a null handler throws a
\* TypeError inside the try block: the call is recorded as not live and the
\* loop goes on.
RECURSIVE renderLoop(_, _, _)
renderLoop(t, i, h) ==
  LET stories == storyNames(Exports(t.file))
      meta == metaOf(Exports(t.file))
  IN IF i > Len(stories) THEN returnInjected(t)
     ELSE IF overridesComponent(meta, stories[i].value) THEN renderLoop(t, i + 1, h)
     ELSE LET call == [name |-> stories[i].name,
                       data |-> HandlerProps(t.componentPath, meta, stories[i].value),
                       live |-> h # 0,
                       outcome |-> IF h = 0 THEN "threw" ELSE "pending"]
          IN IF h = 0
             THEN renderLoop([t EXCEPT !.calls = Append(@, call)], i + 1, h)
             ELSE [t EXCEPT !.pc = "rendering", !.idx = i, !.calls = Append(@, call)]

\* from the call to the await of this.resolve
transformCalled(t, f, vs, h) ==
  IF h = 0 \/ vs = 0 THEN returnNull(t)
  ELSE IF ~isStoryId(ModuleId(f)) THEN returnNull(t)
  ELSE IF findFirstAstroImport(ProgramBody(f)).t = "null"
       THEN returnNull([t EXCEPT !.parses = @ + 1])
       ELSE [t EXCEPT !.parses = @ + 1, !.resolves = @ + 1, !.pc = "resolving"]

\* transformResolved with the ssrLoadModule call outside the try block: on
\* a null viteServer the TypeError leaves the hook
transformResolvedUncaught(t, resolved, vs) ==
  IF resolved.t = "null" THEN returnNull(t)
  ELSE IF vs = 0
       THEN [t EXCEPT !.componentPath = resolved.id, !.pc = "returned",
                      !.result = [t |-> "exception"]]
  ELSE [t EXCEPT !.componentPath = resolved.id, !.evals = @ + 1,
                 !.pc = "evaluating"]

\* from the result of this.resolve to the await of ssrLoadModule; with
\* viteServer null the call throws inside the try block
transformResolved(t, resolved, vs) ==
  IF resolved.t = "null" THEN returnNull(t)
  ELSE IF vs = 0 THEN returnNull([t EXCEPT !.componentPath = resolved.id])
  ELSE [t EXCEPT !.componentPath = resolved.id, !.evals = @ + 1,
                 !.pc = "evaluating"]

\* transformLoaded going on to the render loop after ssrLoadModule threw
transformLoadedNoReturn(t, threw, h) ==
  IF lacksFactoryMarker(metaOf(Exports(t.file)))
  THEN returnNull([t EXCEPT !.loaded = ~threw])
  ELSE IF Len(storyNames(Exports(t.file))) = 0
       THEN returnNull([t EXCEPT !.loaded = ~threw])
  ELSE renderLoop([t EXCEPT !.loaded = ~threw], 1, h)

\* from the result of ssrLoadModule to the first handler call
transformLoaded(t, threw, h) ==
  IF threw THEN returnNull(t)
  ELSE IF lacksFactoryMarker(metaOf(Exports(t.file)))
       THEN returnNull([t EXCEPT !.loaded = TRUE])
  ELSE IF Len(storyNames(Exports(t.file))) = 0
       THEN returnNull([t EXCEPT !.loaded = TRUE])
  ELSE renderLoop([t EXCEPT !.loaded = TRUE], 1, h)

\* the HTML container.renderToString returns for a handler call
renderedHtml(data) ==
  [component |-> data.component, options |-> containerOptions(data),
   body |-> Body(containerOptions(data))]

transform(i, f) ==
  /\ transforms < MaxTransforms
  /\ tasks[i].pc = "idle"
  /\ \A j \in Slots : j < i => tasks[j].pc # "idle"
  /\ transforms' = transforms + 1
  /\ tasks' = [tasks EXCEPT ![i] =
       transformCalled([NoTask EXCEPT !.file = f, !.startedIn = phase],
                       f, viteServer, handler)]
  /\ UNCHANGED <<viteServer, handler, assetRefIds, builds, created, closes,
                 emitted, phase>>
  /\ UNCHANGED <<lastCall, ws, hooks, isBuild>>

transformAfterResolve(i) ==
  /\ tasks[i].pc = "resolving"
  /\ \E found \in BOOLEAN :
       LET source == findFirstAstroImport(ProgramBody(tasks[i].file)).source
           resolved == IF found THEN [t |-> "resolved", id |-> ResolvedId(source)]
                       ELSE JsNull
       IN tasks' = [tasks EXCEPT ![i] = transformResolved(@, resolved, viteServer)]
  /\ UNCHANGED <<viteServer, handler, assetRefIds, builds, created, closes,
                 transforms, emitted, phase>>
  /\ UNCHANGED <<lastCall, ws, hooks, isBuild>>

transformAfterLoad(i) ==
  /\ tasks[i].pc = "evaluating"
  /\ \E threw \in BOOLEAN :
       tasks' = [tasks EXCEPT ![i] = transformLoaded(@, threw, handler)]
  /\ UNCHANGED <<viteServer, handler, assetRefIds, builds, created, closes,
                 transforms, emitted, phase>>
  /\ UNCHANGED <<lastCall, ws, hooks, isBuild>>

\* transformAfterRender calling the handler again for a story whose render
\* threw
transformAfterRenderRetry(i) ==
  /\ tasks[i].pc = "rendering"
  /\ LET t == tasks[i]
         call == t.calls[Len(t.calls)]
         settled(outcome) == [t EXCEPT !.calls[Len(t.calls)].outcome = outcome]
         tried == Cardinality({k \in DOMAIN t.calls : t.calls[k].name = call.name})
     IN \/ /\ tasks' = [tasks EXCEPT ![i] =
                renderLoop(settled("threw"),
                           IF tried < 2 THEN t.idx ELSE t.idx + 1, handler)]
           /\ UNCHANGED <<assetRefIds, emitted>>
        \/ LET r == emitAndRewriteAssetUrls(renderedHtml(call.data),
                                            emitted, assetRefIds)
               stored == [settled("html") EXCEPT
                 !.prerendered = Append(@, [name |-> call.name, html |-> r.html]),
                 !.emits = @ + (r.emitted - emitted)]
           IN /\ tasks' = [tasks EXCEPT ![i] = renderLoop(stored, t.idx + 1, handler)]
              /\ assetRefIds' = r.refIds
              /\ emitted' = r.emitted
  /\ UNCHANGED <<viteServer, handler, builds, created, closes, transforms, phase>>
  /\ UNCHANGED <<lastCall, ws, hooks, isBuild>>

\* transformAfterRender leaving the loop when a render throws
transformAfterRenderAbort(i) ==
  /\ tasks[i].pc = "rendering"
  /\ LET t == tasks[i]
         call == t.calls[Len(t.calls)]
         settled(outcome) == [t EXCEPT !.calls[Len(t.calls)].outcome = outcome]
     IN \/ /\ tasks' = [tasks EXCEPT ![i] = returnInjected(settled("threw"))]
           /\ UNCHANGED <<assetRefIds, emitted>>
        \/ LET r == emitAndRewriteAssetUrls(renderedHtml(call.data),
                                            emitted, assetRefIds)
               stored == [settled("html") EXCEPT
                 !.prerendered = Append(@, [name |-> call.name, html |-> r.html]),
                 !.emits = @ + (r.emitted - emitted)]
           IN /\ tasks' = [tasks EXCEPT ![i] = renderLoop(stored, t.idx + 1, handler)]
              /\ assetRefIds' = r.refIds
              /\ emitted' = r.emitted
  /\ UNCHANGED <<viteServer, handler, builds, created, closes, transforms, phase>>
  /\ UNCHANGED <<lastCall, ws, hooks, isBuild>>

\* transformAfterRender with `prerendered` kept by the plugin instead of by
\* the call: the HTML is stored for every transform that is under way
transformAfterRenderShared(i) ==
  /\ tasks[i].pc = "rendering"
  /\ LET t == tasks[i]
         call == t.calls[Len(t.calls)]
         settled(outcome) == [t EXCEPT !.calls[Len(t.calls)].outcome = outcome]
     IN \/ /\ tasks' = [tasks EXCEPT ![i] =
                renderLoop(settled("threw"), t.idx + 1, handler)]
           /\ UNCHANGED <<assetRefIds, emitted>>
        \/ LET r == emitAndRewriteAssetUrls(renderedHtml(call.data),
                                              emitted, assetRefIds)
               entry == [name |-> call.name, html |-> r.html]
               stored == [settled("html") EXCEPT
                 !.prerendered = Append(@, entry),
                 !.emits = @ + (r.emitted - emitted)]
           IN /\ tasks' = [j \in Slots |->
                   IF j = i THEN renderLoop(stored, t.idx + 1, handler)
                   ELSE IF tasks[j].pc \in {"resolving", "evaluating", "rendering"}
                        THEN [tasks[j] EXCEPT !.prerendered = Append(@, entry)]
                        ELSE tasks[j]]
              /\ assetRefIds' = r.refIds
              /\ emitted' = r.emitted
  /\ UNCHANGED <<viteServer, handler, builds, created, closes, transforms, phase>>
  /\ UNCHANGED <<lastCall, ws, hooks, isBuild>>

\* the handler call settles: it throws, or it returns HTML that is rewritten
\* and stored
transformAfterRender(i) ==
  /\ tasks[i].pc = "rendering"
  /\ LET t == tasks[i]
         call == t.calls[Len(t.calls)]
         settled(outcome) == [t EXCEPT !.calls[Len(t.calls)].outcome = outcome]
     IN \/ /\ tasks' = [tasks EXCEPT ![i] =
                renderLoop(settled("threw"), t.idx + 1, handler)]
           /\ UNCHANGED <<assetRefIds, emitted>>
        \/ LET r == emitAndRewriteAssetUrls(renderedHtml(call.data),
                                              emitted, assetRefIds)
               stored == [settled("html") EXCEPT
                 !.prerendered = Append(@, [name |-> call.name, html |-> r.html]),
                 !.emits = @ + (r.emitted - emitted)]
           IN /\ tasks' = [tasks EXCEPT ![i] = renderLoop(stored, t.idx + 1, handler)]
              /\ assetRefIds' = r.refIds
              /\ emitted' = r.emitted
  /\ UNCHANGED <<viteServer, handler, builds, created, closes, transforms, phase>>
  /\ UNCHANGED <<lastCall, ws, hooks, isBuild>>

\* the bundler takes the value transform returned
transformReturn(i) ==
  /\ tasks[i].pc = "returned"
  /\ tasks' = [tasks EXCEPT ![i] = NoTask]
  /\ UNCHANGED <<viteServer, handler, assetRefIds, builds, created, closes,
                 transforms, emitted, phase>>
  /\ UNCHANGED <<lastCall, ws, hooks, isBuild>>

(***************************************************************************)
(* The asset hooks on their own: emitAndRewriteAssetUrls applied to the    *)
(* HTML of a render, and renderChunk applied to the code of a chunk.       *)
(***************************************************************************)
\* the sequences of 1 to n elements of S
SeqsUpTo(S, n) == UNION {[1 .. m -> S] : m \in 1 .. n}

\* the tokens of a rendered HTML: text and /@fs URLs of a readable and of
\* an unreadable file, with and without a query string
HtmlTokens ==
  {Text("<img src="), FsUrl("/abs/a.png", ""),
   FsUrl("/abs/a.png", "?w=10&#38;h=5"), FsUrl("/abs/gone.png", "")}

\* the tokens of a chunk's code before renderChunk
ChunkTokens ==
  {Text("<img src="), FsUrl("/abs/gone.png", "")}
    \cup {Placeholder(r) : r \in 1 .. MaxEmitted}

\* how many tokens of a body are /@fs URLs of readable files
RECURSIVE readableCount(_)
readableCount(body) ==
  IF body = <<>> THEN 0
  ELSE (IF Head(body).k = "fs" /\ Head(body).path \in Readable THEN 1 ELSE 0)
         + readableCount(Tail(body))

\* prerendered[name] = emitAndRewriteAssetUrls(html, this, assetRefIds)
rewriteHtml(body) ==
  /\ emitted + readableCount(body) <= MaxEmitted
  /\ LET r == emitAndRewriteAssetUrls([body |-> body], emitted, assetRefIds)
     IN /\ assetRefIds' = r.refIds
        /\ emitted' = r.emitted
        /\ lastCall' = [op |-> "rewrite", input |-> body, output |-> r.html.body]
  /\ UNCHANGED <<viteServer, handler, tasks, builds, created, closes,
                 transforms, phase, ws, hooks, isBuild>>

\* the code of the chunk the bundler renders next: any bounded text, the
\* HTML just rewritten, or the code renderChunk has just returned
ChunkCodes ==
  SeqsUpTo(ChunkTokens, MaxTokens)
    \cup (IF lastCall.op = "rewrite" THEN {lastCall.output} ELSE {})
    \cup (IF lastCall.op = "renderChunk" /\ lastCall.result.t = "code"
          THEN {lastCall.result.code} ELSE {})

\* renderChunk(code), with the outcome of getFileName for each reference id
\* it is called for
renderChunk(code) ==
  /\ \E names \in [{e[2] : e \in presentEntries(code, assetRefIds)}
                      -> FileNameOutcomes] :
       lastCall' = [op |-> "renderChunk", code |-> code, names |-> names,
                    result |-> renderChunkResult(code, assetRefIds, names)]
  /\ UNCHANGED <<viteServer, handler, assetRefIds, tasks, builds, created,
                 closes, transforms, emitted, phase, ws, hooks, isBuild>>

NextAssets ==
  \/ \E body \in SeqsUpTo(HtmlTokens, MaxTokens) : rewriteHtml(body)
  \/ \E code \in ChunkCodes : renderChunk(code)

SpecAssets == Init /\ [][NextAssets]_vars

\* the table emitAndRewriteAssetUrls has built for a set of reference ids
TableOf(refIds) == {<<Placeholder(r), r>> : r \in refIds}

\* the tokens of a chunk that holds placeholders
PlaceholderTokens ==
  {Text("<img src=")} \cup {Placeholder(r) : r \in DOMAIN RefIdList}

\* renderChunk(code) on the text of the chunk, the table holding the given
\* reference ids and being iterated in the given order; getFileName returns
\* a name for every id
renderChunkOnText(refIds, order, code) ==
  /\ lastCall' = [op |-> "renderChunkText", refIds |-> refIds, order |-> order,
                  code |-> code,
                  text |-> renderChunkText(ChunkText(code), order,
                                           [r \in refIds |-> "name"])]
  /\ UNCHANGED <<viteServer, handler, assetRefIds, tasks, builds, created,
                 closes, transforms, emitted, phase, ws, hooks, isBuild>>

\* the orders a table can be iterated in
IterationOrders(table) ==
  {o \in [1 .. Cardinality(table) -> table] :
     \A j, k \in DOMAIN o : j # k => o[j] # o[k]}

\* the chunks whose placeholders are those of the table
ChunkCodesOver(refIds) ==
  {code \in SeqsUpTo(PlaceholderTokens, MaxTokens) :
     \A k \in DOMAIN code :
       code[k].k = "placeholder" => code[k].refId \in refIds}

NextChunkText ==
  \E refIds \in (SUBSET DOMAIN RefIdList) \ {{}} :
    \E order \in IterationOrders(TableOf(refIds)) :
      \E code \in ChunkCodesOver(refIds) :
        renderChunkOnText(refIds, order, code)

SpecChunkText == Init /\ [][NextChunkText]_vars

Next ==
  \/ buildStart
  \/ buildEnd
  \/ \E i \in Slots, f \in ModuleNames : transform(i, f)
  \/ \E i \in Slots : transformAfterResolve(i)
  \/ \E i \in Slots : transformAfterLoad(i)
  \/ \E i \in Slots : transformAfterRender(i)
  \/ \E i \in Slots : transformReturn(i)

Spec == Init /\ [][Next]_vars

(***************************************************************************)
(* The render handler on its own: handler(data) for bounded prop trees and *)
(* for a component compiled to either createAstro calling convention.      *)
(***************************************************************************)
\* a component factory that carries all three metadata fields
Layout ==
  Func("Layout", [isAstroComponentFactory |-> Bool(TRUE),
                  moduleId |-> Str("/src/Layout.astro"),
                  propagation |-> Str("self")])

\* the default exports import(data.component) gives, by component path
ComponentPaths == {<<"/src/Card", "astro">>, <<"/src/Layout", "astro">>}
ComponentModules ==
  [path \in ComponentPaths |->
     IF path = <<"/src/Card", "astro">> THEN Card ELSE Layout]

\* the values at the leaves of a prop tree
ImageValue == Obj([src |-> Str("/x.png"), width |-> Num(10)])
ImageNoSrc ==
  Obj([src |-> Str(""), fsPath |-> Str("/abs/x.png"), format |-> Str("png")])
SrcOnly == Obj([src |-> Str("/y.png")])
PlainString == Str("plain")
LeafList ==
  <<PlainString, Num(3), Bool(TRUE), JsNull, ImageValue, ImageNoSrc, SrcOnly,
    Arr(<<>>)>>
Leaves == DOMAIN LeafList
Leaf(n) == LeafList[n]

\* what a value is nested in: <<0, 0>> is the object {inner: value},
\* <<n, p>> an array of n elements with the value at position p and the
\* string "plain" elsewhere
Wrappers ==
  {<<0, 0>>} \cup {w \in (1 .. MaxItems) \X (1 .. MaxItems) : w[2] <= w[1]}

\* the prop tree with the given leaf under the given nesting
RECURSIVE ValueOf(_, _)
ValueOf(wraps, leaf) ==
  IF wraps = <<>> THEN Leaf(leaf)
  ELSE LET w == Head(wraps)
           inner == ValueOf(Tail(wraps), leaf)
       IN IF w[1] = 0 THEN Obj([inner |-> inner])
          ELSE Arr([i \in 1 .. w[1] |-> IF i = w[2] THEN inner ELSE PlainString])

\* $$Astro, the first argument of a component compiled by compiler v2
AstroSeed == Obj([site |-> Str("https://example.com")])

\* the arguments the compiled component calls result.createAstro with
Conventions == {"v2", "v3"}
createAstroArgs(convention, props, slots) ==
  IF convention = "v2" THEN <<AstroSeed, props, slots>> ELSE <<props, slots>>

\* the module cache a handler call finds
ModulesOf(call) == IF call.op = "handler" THEN call.modules ELSE ComponentModules

\* what a render is asked for: the component, the prop tree (its nesting
\* and its leaf), whether args and slots are given, and the convention the
\* component is compiled to
FirstInput ==
  [path |-> <<"/src/Card", "astro">>, wraps |-> <<>>, leaf |-> 1,
   withArgs |-> TRUE, withSlots |-> FALSE, convention |-> "v3"]
InputOf(call) == IF call.op = "handler" THEN call.input ELSE FirstInput

\* the next render differs from the last one in one respect, as when a
\* control of the story is edited
NextInputs(inp) ==
  {inp}
    \cup {[inp EXCEPT !.path = p] : p \in ComponentPaths}
    \cup {[inp EXCEPT !.leaf = l] : l \in Leaves}
    \cup {[inp EXCEPT !.wraps = <<w>> \o @] :
            w \in {x \in Wrappers : Len(inp.wraps) < MaxDepth}}
    \cup {[inp EXCEPT !.wraps = Tail(@)] : x \in {1 : y \in DOMAIN inp.wraps}}
    \cup {[inp EXCEPT !.withArgs = b] : b \in BOOLEAN}
    \cup {[inp EXCEPT !.withSlots = b] : b \in BOOLEAN}
    \cup {[inp EXCEPT !.convention = c] : c \in Conventions}

\* the slots of a story that gives slots
DefaultSlot == Obj([default |-> Str("<b>hi</b>")])

\* the HandlerProps of an input
DataOf(inp) ==
  [component |-> inp.path,
   args |-> IF inp.withArgs THEN Obj([image |-> ValueOf(inp.wraps, inp.leaf)])
            ELSE Undefined,
   slots |-> IF inp.withSlots THEN DefaultSlot ELSE Undefined]

\* handler(data) for a component compiled to the given convention
handlerCall(inp) ==
  LET data == DataOf(inp)
      modules == ModulesOf(lastCall)
      Component == modules[data.component]
      options == containerOptions(data)
      patch == patchCreateAstroCompat(Component)
      astro == patchedCreateAstro(
                 createAstroArgs(inp.convention, Obj(options.props), options.slots))
      seen == [props |-> OwnProps(astro.returned.props),
               slots |-> astro.returned.slots]
  IN /\ lastCall' =
          [op |-> "handler", input |-> inp, data |-> data,
           convention |-> inp.convention,
           imported |-> Component,
           modules |-> [modules EXCEPT ![data.component] = patch.Component],
           wrapped |-> patch.wrapped,
           processedArgs |-> options.props,
           createAstro |-> astro,
           html |-> [component |-> data.component, options |-> seen,
                     body |-> Body(seen)]]
     /\ UNCHANGED <<viteServer, handler, assetRefIds, tasks, builds, created,
                    closes, transforms, emitted, phase, ws, hooks, isBuild>>

NextHandler == \E inp \in NextInputs(InputOf(lastCall)) : handlerCall(inp)

SpecHandler == Init /\ [][NextHandler]_vars

(***************************************************************************)
(* The discoverer on its own: findFirstAstroImport for bounded programs.   *)
(***************************************************************************)
\* the top-level statements a program is made of
NodeList ==
  <<ImportDefault("Card", <<"./Card", "astro">>),
    ImportDefault("Hero", <<"./Hero", "astro">>),
    ImportNamed("helper", <<"./helpers", "astro">>),
    ImportDefault("Button", <<"./Button", "vue">>),
    [source |-> <<"./global", "astro">>, specifiers |-> <<>>,
     type |-> "ImportDeclaration"],
    [source |-> <<"./Both", "astro">>,
     specifiers |-> <<[local |-> "Both", type |-> "ImportDefaultSpecifier"],
                      [local |-> "meta", type |-> "ImportSpecifier"]>>,
     type |-> "ImportDeclaration"],
    [init |-> [source |-> <<"./Lazy", "astro">>, type |-> "ImportExpression"],
     type |-> "VariableDeclaration"]>>
Nodes == DOMAIN NodeList
Node(n) == NodeList[n]

\* the program made of the statements numbered ns
RECURSIVE BodyOf(_)
BodyOf(ns) ==
  IF Len(ns) = 0 THEN <<>>
  ELSE Append(BodyOf(SubSeq(ns, 1, Len(ns) - 1)), Node(ns[Len(ns)]))

\* const astroImport = findFirstAstroImport(ast)
findImport(program) ==
  /\ lastCall' = [op |-> "findFirstAstroImport", program |-> program,
                  body |-> BodyOf(program),
                  result |-> findFirstAstroImport(BodyOf(program))]
  /\ UNCHANGED <<viteServer, handler, assetRefIds, tasks, builds, created,
                 closes, transforms, emitted, phase, ws, hooks, isBuild>>

\* the program parsed last, as statement numbers
ProgramOf(call) ==
  IF call.op = "findFirstAstroImport" THEN call.program ELSE <<>>

\* the next program parsed is the last one with a statement added at the
\* end or with its last statement removed
NextPrograms(ns) ==
  {Append(ns, n) : n \in {m \in Nodes : Len(ns) < MaxNodes}}
    \cup {SubSeq(ns, 1, Len(ns) - 1) : x \in {1 : y \in DOMAIN ns}}

NextDiscoverer == \E ns \in NextPrograms(ProgramOf(lastCall)) : findImport(ns)

SpecDiscoverer == Init /\ [][NextDiscoverer]_vars

(***************************************************************************)
(* The dev server.  Each astro:render:request message starts the listener, *)
(* which awaits handler(data) and sends one astro:render:response.  ws     *)
(* holds the requests received (the request with id n is requests[n]), the *)
(* ids whose handler call is pending, the responses sent, and the ids      *)
(* whose listener ended in a rejection.                                    *)
(***************************************************************************)
\* what the stories of the dev session ask for
DevRequestList ==
  <<[component |-> <<"/src/Card", "astro">>,
     args |-> Obj([title |-> Str("Hello")]), slots |-> Undefined],
    [component |-> <<"/src/Card", "astro">>,
     args |-> Obj([x |-> Num(1)]), slots |-> DefaultSlot]>>

\* what handler rejects with: an Error with a message, or another value
\* with its string form, as sequences of characters
ThrownList ==
  <<[isError |-> TRUE, message |-> <<"a">>],
    [isError |-> FALSE, message |-> <<"<", "b", ">">>],
    [isError |-> TRUE, message |-> <<"a", "&", "b">>],
    [isError |-> TRUE, message |-> <<"&", "l", "t", ";">>]>>

\* err instanceof Error ? err.message : String(err)
errorMessageOf(err) == err.message

\* errorMessage.replace(/</g, '&lt;').replace(/>/g, '&gt;')
RECURSIVE escapeMessage(_)
escapeMessage(m) ==
  IF m = <<>> THEN <<>>
  ELSE <<IF Head(m) = "<" THEN "&lt;"
         ELSE IF Head(m) = ">" THEN "&gt;" ELSE Head(m)>>
         \o escapeMessage(Tail(m))

\* the message sent after handler resolved
renderResponse(data, html) == [html |-> html, id |-> data.id]

\* the message sent from the catch block: the banner with the escaped
\* message in its pre element
errorResponse(data, errorMessage) ==
  [html |-> [banner |-> "Error rendering Astro component",
             pre |-> escapeMessage(errorMessage)],
   id |-> data.id]

\* the listener without its catch block
listenerSettledUncaught(w, data, outcome) ==
  IF outcome.ok
  THEN [w EXCEPT !.sent = Append(@, renderResponse(data, outcome.html)),
                 !.pending = @ \ {data.id}]
  ELSE [w EXCEPT !.failed = @ \cup {data.id}, !.pending = @ \ {data.id}]

\* the listener from the settling of handler(data) to its end
listenerSettled(w, data, outcome) ==
  IF outcome.ok
  THEN [w EXCEPT !.sent = Append(@, renderResponse(data, outcome.html)),
                 !.pending = @ \ {data.id}]
  ELSE [w EXCEPT !.sent = Append(@, errorResponse(data, errorMessageOf(outcome.err))),
                 !.pending = @ \ {data.id}]

\* the client sends astro:render:request; the listener calls handler(data)
renderRequest(props) ==
  /\ Len(ws.requests) < MaxRequests
  /\ LET data == [id |-> Len(ws.requests) + 1, component |-> props.component,
                  args |-> props.args, slots |-> props.slots]
     IN ws' = [ws EXCEPT !.requests = Append(@, data),
                         !.pending = @ \cup {data.id}]
  /\ UNCHANGED <<viteServer, handler, assetRefIds, tasks, builds, created,
                 closes, transforms, emitted, phase, lastCall, hooks, isBuild>>

\* handler(data) resolves with the rendered HTML
handlerResolves(id) ==
  /\ id \in ws.pending
  /\ ws' = listenerSettled(ws, ws.requests[id],
                           [ok |-> TRUE, html |-> renderedHtml(ws.requests[id])])
  /\ UNCHANGED <<viteServer, handler, assetRefIds, tasks, builds, created,
                 closes, transforms, emitted, phase, lastCall, hooks, isBuild>>

\* handler(data) rejects
handlerRejects(id, err) ==
  /\ id \in ws.pending
  /\ ws' = listenerSettled(ws, ws.requests[id], [ok |-> FALSE, err |-> err])
  /\ UNCHANGED <<viteServer, handler, assetRefIds, tasks, builds, created,
                 closes, transforms, emitted, phase, lastCall, hooks, isBuild>>

NextDev ==
  \/ \E n \in DOMAIN DevRequestList : renderRequest(DevRequestList[n])
  \/ \E id \in 1 .. MaxRequests : handlerResolves(id)
  \/ \E id \in 1 .. MaxRequests, n \in DOMAIN ThrownList :
       handlerRejects(id, ThrownList[n])

SpecDev == Init /\ [][NextDev]_vars

(***************************************************************************)
(* The lifecycle hooks step by step.  buildStart awaits createViteServer,  *)
(* ssrLoadModule of the middleware and handlerFactory; buildEnd awaits     *)
(* viteServer.close().  The bundler calls buildEnd when the build ends or  *)
(* fails, which may be while this plugin's buildStart is still pending.    *)
(***************************************************************************)
\* buildStart is called: createViteServer(integrations) is called
buildStartCalled ==
  /\ hooks.start = "idle"
  /\ builds < MaxBuilds
  /\ builds' = builds + 1
  /\ hooks' = [hooks EXCEPT !.start = "createViteServer"]
  /\ UNCHANGED <<viteServer, handler, assetRefIds, tasks, created, closes,
                 transforms, emitted, phase, lastCall, ws, isBuild>>

\* createViteServer settles: viteServer is assigned and ssrLoadModule is
\* called on it, or the catch block logs
createViteServerSettled(ok) ==
  /\ hooks.start = "createViteServer"
  /\ IF ok
     THEN /\ viteServer' = builds
          /\ created' = created \cup {builds}
          /\ closes' = [n \in created' |-> IF n \in created THEN closes[n] ELSE 0]
          /\ hooks' = [hooks EXCEPT !.start = "ssrLoadModule"]
          /\ UNCHANGED phase
     ELSE /\ hooks' = [hooks EXCEPT !.start = "idle"]
          /\ phase' = "failed"
          /\ UNCHANGED <<viteServer, created, closes>>
  /\ UNCHANGED <<handler, assetRefIds, tasks, builds, transforms, emitted,
                 lastCall, ws, isBuild>>

\* ssrLoadModule of the middleware settles: handlerFactory is called, or
\* the catch block logs
ssrLoadModuleSettled(ok) ==
  /\ hooks.start = "ssrLoadModule"
  /\ hooks' = [hooks EXCEPT !.start = IF ok THEN "handlerFactory" ELSE "idle"]
  /\ phase' = IF ok THEN phase ELSE "failed"
  /\ UNCHANGED <<viteServer, handler, assetRefIds, tasks, builds, created,
                 closes, transforms, emitted, lastCall, ws, isBuild>>

\* handlerFactory settles: handler is assigned, or the catch block logs
handlerFactorySettled(ok) ==
  /\ hooks.start = "handlerFactory"
  /\ handler' = IF ok THEN builds ELSE handler
  /\ hooks' = [hooks EXCEPT !.start = "idle"]
  /\ phase' = IF ok THEN "ready" ELSE "failed"
  /\ UNCHANGED <<viteServer, assetRefIds, tasks, builds, created, closes,
                 transforms, emitted, lastCall, ws, isBuild>>

\* buildEnd is called: with a server handle it calls viteServer.close(),
\* without one it returns
buildEndCalled ==
  /\ hooks.end = "idle"
  /\ IF viteServer # 0
     THEN /\ closes' = [closes EXCEPT ![viteServer] = @ + 1]
          /\ hooks' = [hooks EXCEPT !.end = "close", !.closing = viteServer]
          /\ UNCHANGED phase
     ELSE /\ phase' = "idle"
          /\ UNCHANGED <<closes, hooks, isBuild>>
  /\ UNCHANGED <<viteServer, handler, assetRefIds, tasks, builds, created,
                 transforms, emitted, lastCall, ws, isBuild>>

\* viteServer.close() resolves: viteServer = null; handler = null
closeSettled ==
  /\ hooks.end = "close"
  /\ viteServer' = 0
  /\ handler' = 0
  /\ phase' = "idle"
  /\ hooks' = [hooks EXCEPT !.end = "idle", !.closing = 0]
  /\ UNCHANGED <<assetRefIds, tasks, builds, created, closes, transforms,
                 emitted, lastCall, ws, isBuild>>

NextLifecycle ==
  \/ buildStartCalled
  \/ \E ok \in BOOLEAN : createViteServerSettled(ok)
  \/ \E ok \in BOOLEAN : ssrLoadModuleSettled(ok)
  \/ \E ok \in BOOLEAN : handlerFactorySettled(ok)
  \/ buildEndCalled
  \/ closeSettled

SpecLifecycle == Init /\ [][NextLifecycle]_vars

(***************************************************************************)
(* The Astro 6 compatibility plugins of the preview: the component marker  *)
(* (configResolved, transform) and the fonts fallback (resolveId, load).   *)
(* The code of a module is what the marker tests of it: whether it holds   *)
(* the client stub text.  The .astro source on disk is unreadable, or      *)
(* readable with the CSS of its <style> blocks.                            *)
(***************************************************************************)
\* the ids the bundler hands to the marker's transform
MarkerIdList ==
  << <<"/src/Card", "astro">>,
     <<"/src/pages/index", "astro">>,
     <<"/src/Card", "astro?astro&type=style&index=0&lang", "css">>,
     <<"/src/Card", "stories", "ts">>,
     <<"/src/Button", "tsx">> >>

\* what readFileSync(filePath, 'utf-8') finds
AstroSourceList ==
  << [readable |-> FALSE, styles |-> <<>>],
     [readable |-> TRUE, styles |-> <<>>],
     [readable |-> TRUE, styles |-> <<"h1{color:red}">>],
     [readable |-> TRUE, styles |-> <<"h1{color:red}", "p{margin:0}">>] >>

\* generateStyleImports(filePath): one import per <style> block, none when
\* the file cannot be read
generateStyleImports(filePath, source) ==
  IF ~source.readable THEN <<>>
  ELSE [i \in DOMAIN source.styles |->
          [k |-> "import", path |-> filePath, index |-> i - 1]]

\* generateInlineStyles(filePath): one injecting function per <style>
\* block, none when the file cannot be read
generateInlineStyles(filePath, source) ==
  IF ~source.readable THEN <<>>
  ELSE [i \in DOMAIN source.styles |->
          [k |-> "inject", path |-> filePath, index |-> i - 1,
           css |-> JSONstringify(source.styles[i])]]

\* the marker's transform without the try blocks around readFileSync
markerTransformUnguarded(code, id, build, source) ==
  IF ~endsWithAstro(id) THEN JsNull
  ELSE IF ~code.stub THEN JsNull
  ELSE IF ~source.readable THEN [t |-> "exception"]
  ELSE [t |-> "code",
        styleCode |-> IF build THEN generateInlineStyles(id, source)
                      ELSE generateStyleImports(id, source),
        isAstroComponentFactory |-> TRUE,
        moduleId |-> JSONstringify(id)]

\* transform(code, id) of the component marker
markerTransform(code, id, build, source) ==
  IF ~endsWithAstro(id) THEN JsNull
  ELSE IF ~code.stub THEN JsNull
  ELSE [t |-> "code",
        styleCode |-> IF build THEN generateInlineStyles(id, source)
                      ELSE generateStyleImports(id, source),
        isAstroComponentFactory |-> TRUE,
        moduleId |-> JSONstringify(id)]

\* the default export of the emitted module once it is evaluated
markerDefaultExport(result) ==
  [isAstroComponentFactory |-> result.isAstroComponentFactory,
   moduleId |-> LiteralValue(result.moduleId)]

\* configResolved(config)
configResolved(command) ==
  /\ isBuild' = (command = "build")
  /\ lastCall' = [op |-> "configResolved", command |-> command]
  /\ UNCHANGED <<viteServer, handler, assetRefIds, tasks, builds, created,
                 closes, transforms, emitted, phase, ws, hooks>>

\* the bundler calls the marker's transform
markerTransformCall(stub, i, s) ==
  /\ lastCall' = [op |-> "markerTransform", stub |-> stub,
                  id |-> MarkerIdList[i], build |-> isBuild, source |-> s,
                  result |-> markerTransform([stub |-> stub], MarkerIdList[i],
                                             isBuild, AstroSourceList[s])]
  /\ UNCHANGED <<viteServer, handler, assetRefIds, tasks, builds, created,
                 closes, transforms, emitted, phase, ws, hooks, isBuild>>

VIRTUAL_ID == <<"virtual:astro:assets/fonts/internal">>
RUNTIME_VIRTUAL_ID == <<"virtual:astro:assets/fonts/runtime">>
RESOLVED_VIRTUAL_ID == <<"\\0">> \o VIRTUAL_ID
RESOLVED_RUNTIME_VIRTUAL_ID == <<"\\0">> \o RUNTIME_VIRTUAL_ID
RESOLVED_FONTS_RUNTIME_ID == <<"\\0", "storybook:astro-fonts-runtime">>

\* the ids the bundler asks the fonts fallback about
FontIdList ==
  << VIRTUAL_ID, RUNTIME_VIRTUAL_ID,
     <<"astro/assets/fonts/runtime">>, <<"astro/assets/fonts/runtime.js">>,
     RESOLVED_VIRTUAL_ID, RESOLVED_RUNTIME_VIRTUAL_ID, RESOLVED_FONTS_RUNTIME_ID,
     <<"astro:assets">>, <<"astro/assets/fonts/runtime.ts">>,
     <<"virtual:astro:assets/fonts">>, <<"storybook:astro-fonts-runtime">>,
     <<"\\0", "astro/assets/fonts/runtime">>, <<"/src/Card.astro">> >>

\* resolveId without the branch for the package import paths
resolveIdVirtualOnly(id) ==
  IF id = VIRTUAL_ID THEN [t |-> "id", id |-> RESOLVED_VIRTUAL_ID]
  ELSE IF id = RUNTIME_VIRTUAL_ID THEN [t |-> "id", id |-> RESOLVED_RUNTIME_VIRTUAL_ID]
  ELSE Undefined

\* resolveId(id)
resolveId(id) ==
  IF id = VIRTUAL_ID THEN [t |-> "id", id |-> RESOLVED_VIRTUAL_ID]
  ELSE IF id = RUNTIME_VIRTUAL_ID THEN [t |-> "id", id |-> RESOLVED_RUNTIME_VIRTUAL_ID]
  ELSE IF id = <<"astro/assets/fonts/runtime">>
          \/ id = <<"astro/assets/fonts/runtime.js">>
       THEN [t |-> "id", id |-> RESOLVED_FONTS_RUNTIME_ID]
  ELSE Undefined

\* load(id)
load(id) ==
  IF id = RESOLVED_VIRTUAL_ID THEN [t |-> "code", code |-> "FONTS_INTERNAL_STUB"]
  ELSE IF id = RESOLVED_RUNTIME_VIRTUAL_ID \/ id = RESOLVED_FONTS_RUNTIME_ID
       THEN [t |-> "code", code |-> "FONTS_RUNTIME_STUB"]
  ELSE Undefined

\* the bundler asks the fonts fallback to resolve an id
resolveIdCall(i) ==
  /\ lastCall' = [op |-> "resolveId", id |-> FontIdList[i],
                  result |-> resolveId(FontIdList[i])]
  /\ UNCHANGED <<viteServer, handler, assetRefIds, tasks, builds, created,
                 closes, transforms, emitted, phase, ws, hooks, isBuild>>

\* the bundler asks the fonts fallback to load an id: any id, or the one
\* resolveId has just returned
loadCall(i) ==
  /\ LET id == IF lastCall.op = "resolveId" /\ lastCall.result.t = "id"
                  /\ FontIdList[i] = lastCall.id
               THEN lastCall.result.id ELSE FontIdList[i]
     IN lastCall' = [op |-> "load", id |-> id, result |-> load(id)]
  /\ UNCHANGED <<viteServer, handler, assetRefIds, tasks, builds, created,
                 closes, transforms, emitted, phase, ws, hooks, isBuild>>

NextCompat ==
  \/ \E command \in {"build", "serve"} : configResolved(command)
  \/ \E stub \in BOOLEAN, i \in DOMAIN MarkerIdList, s \in DOMAIN AstroSourceList :
       markerTransformCall(stub, i, s)
  \/ \E i \in DOMAIN FontIdList : resolveIdCall(i)
  \/ \E i \in DOMAIN FontIdList : loadCall(i)

SpecCompat == Init /\ [][NextCompat]_vars

(***************************************************************************)
(* testStoryRenders(storyName, story), for a story that is a function.     *)
(* An error message is the set of the phrases it holds; a thrown value     *)
(* that is not an Error has no message.                                    *)
(***************************************************************************)
\* the values thrown by story() or by story.run()
ThrownByStoryList ==
  << [hasMessage |-> TRUE, message |-> {"renderToCanvas is not a function"}],
     [hasMessage |-> TRUE,
      message |-> {"Client-only API called on the server side"}],
     [hasMessage |-> TRUE, message |-> {"Renderer", "not found"}],
     [hasMessage |-> TRUE, message |-> {"no renderer is specified"}],
     [hasMessage |-> TRUE, message |-> {"Renderer"}],
     [hasMessage |-> TRUE, message |-> {"boom"}],
     [hasMessage |-> FALSE, message |-> {}] >>

\* the values story() returns and story.run() resolves to
StoryResultList ==
  << Undefined,
     JsNull,
     Obj(EmptyMap),
     Obj([component |-> Card, args |-> Obj(EmptyMap)]),
     Obj([component |-> Card]) >>

\* what a call does: it throws the n-th value, or returns the n-th result;
\* story.run may be absent
Throws(n) == [k |-> "throws", n |-> n]
Returns(n) == [k |-> "returns", n |-> n]
DirectCalls ==
  {Throws(n) : n \in DOMAIN ThrownByStoryList}
    \cup {Returns(n) : n \in DOMAIN StoryResultList}
RunCalls == DirectCalls \cup {[k |-> "absent", n |-> 0]}

\* the error the try block leaves with, or that it completes
tryBlock(direct, run) ==
  IF direct.k = "throws" THEN [k |-> "caught", error |-> ThrownByStoryList[direct.n]]
  ELSE IF run.k = "throws" THEN [k |-> "caught", error |-> ThrownByStoryList[run.n]]
  ELSE LET directResult == StoryResultList[direct.n]
           awaited == IF run.k = "absent" THEN Undefined ELSE StoryResultList[run.n]
           result == IF Truthy(awaited) THEN awaited ELSE directResult
       IN IF result = Undefined
          THEN [k |-> "caught",
                error |-> [hasMessage |-> TRUE,
                           message |-> {"expected undefined to be defined"}]]
          ELSE IF result = JsNull
          THEN [k |-> "caught",
                error |-> [hasMessage |-> TRUE,
                           message |-> {"Cannot read properties of null"}]]
          ELSE IF Truthy(Get(result, "component")) /\ Get(result, "args") = Undefined
          THEN [k |-> "caught",
                error |-> [hasMessage |-> TRUE,
                           message |-> {"expected undefined to be defined"}]]
          ELSE [k |-> "completed", result |-> result]

\* testStoryRenders without the branch for the SSR-only limitation
testStoryRendersNoSsrBranch(direct, run) ==
  LET body == tryBlock(direct, run) IN
  IF body.k = "completed" THEN [passed |-> TRUE, thrown |-> "nothing"]
  ELSE IF ~body.error.hasMessage THEN [passed |-> FALSE, thrown |-> "TypeError"]
  ELSE IF "renderToCanvas is not a function" \in body.error.message
       THEN [passed |-> TRUE, thrown |-> "nothing"]
  ELSE IF {"Renderer", "not found"} \subseteq body.error.message
       THEN [passed |-> FALSE, thrown |-> "has a broken framework integration"]
  ELSE IF "no renderer is specified" \in body.error.message
       THEN [passed |-> FALSE, thrown |-> "is missing renderer parameter"]
  ELSE [passed |-> FALSE, thrown |-> "failed to render"]

\* the body of the registered test: whether it passes, and what it throws
testStoryRenders(direct, run) ==
  LET body == tryBlock(direct, run) IN
  IF body.k = "completed" THEN [passed |-> TRUE, thrown |-> "nothing"]
  ELSE IF ~body.error.hasMessage THEN [passed |-> FALSE, thrown |-> "TypeError"]
  ELSE IF "renderToCanvas is not a function" \in body.error.message
       THEN [passed |-> TRUE, thrown |-> "nothing"]
  ELSE IF "Client-only API called on the server side" \in body.error.message
       THEN [passed |-> TRUE, thrown |-> "nothing"]
  ELSE IF {"Renderer", "not found"} \subseteq body.error.message
       THEN [passed |-> FALSE, thrown |-> "has a broken framework integration"]
  ELSE IF "no renderer is specified" \in body.error.message
       THEN [passed |-> FALSE, thrown |-> "is missing renderer parameter"]
  ELSE [passed |-> FALSE, thrown |-> "failed to render"]

\* the test runner runs the registered test
testStoryRendersRun(direct, run) ==
  /\ lastCall' = [op |-> "testStoryRenders", direct |-> direct, run |-> run,
                  outcome |-> testStoryRenders(direct, run)]
  /\ UNCHANGED <<viteServer, handler, assetRefIds, tasks, builds, created,
                 closes, transforms, emitted, phase, ws, hooks, isBuild>>

NextTesting ==
  \E direct \in DirectCalls, run \in RunCalls : testStoryRendersRun(direct, run)

SpecTesting == Init /\ [][NextTesting]_vars

(***************************************************************************)
(* The createAstro patch on one result object.  Every invocation of the    *)
(* wrapped factory with the result puts one more patch around the          *)
(* createAstro the result has then; a call of result.createAstro runs      *)
(* through the patches, outermost first, down to the runtime's function.   *)
(***************************************************************************)
\* the props and slots a compiled component passes to createAstro
PropsList == [n \in DOMAIN LeafList |-> Obj([value |-> LeafList[n]])]
SlotsList == <<Obj(EmptyMap), DefaultSlot>>

\* how many patches the result's createAstro carries
PatchesOn(call) == IF call.op \in {"wrapped", "createAstro"} THEN call.patches ELSE 0

\* a patch that skips the first argument of every call
RECURSIVE callCreateAstroAlwaysSkipping(_, _)
callCreateAstroAlwaysSkipping(patches, args) ==
  IF patches = 0 THEN <<args>>
  ELSE callCreateAstroAlwaysSkipping(patches - 1, <<Arg(args, 2), Arg(args, 3)>>)

\* result.createAstro(...args) under the given number of patches: the
\* argument lists the runtime's createAstro is called with
RECURSIVE callCreateAstro(_, _)
callCreateAstro(patches, args) ==
  IF patches = 0 THEN <<args>>
  ELSE callCreateAstro(patches - 1,
         IF Len(args) = 3 THEN <<args[2], args[3]>> ELSE args)

\* wrapped(result, props, slots): result.createAstro is patched
wrappedInvoked ==
  /\ PatchesOn(lastCall) < MaxPatches
  /\ lastCall' = [op |-> "wrapped", before |-> PatchesOn(lastCall),
                  patches |-> PatchesOn(lastCall) + 1]
  /\ UNCHANGED <<viteServer, handler, assetRefIds, tasks, builds, created,
                 closes, transforms, emitted, phase, ws, hooks, isBuild>>

\* a compiled component calls result.createAstro
createAstroCalled(convention, p, s) ==
  /\ LET args == createAstroArgs(convention, PropsList[p], SlotsList[s])
     IN lastCall' = [op |-> "createAstro", patches |-> PatchesOn(lastCall),
                     args |-> args,
                     origCalls |-> callCreateAstro(PatchesOn(lastCall), args)]
  /\ UNCHANGED <<viteServer, handler, assetRefIds, tasks, builds, created,
                 closes, transforms, emitted, phase, ws, hooks, isBuild>>

NextCreateAstro ==
  \/ wrappedInvoked
  \/ \E convention \in Conventions, p \in DOMAIN PropsList, s \in DOMAIN SlotsList :
       createAstroCalled(convention, p, s)

SpecCreateAstro == Init /\ [][NextCreateAstro]_vars

(***************************************************************************)
(* The renders of one evaluated story module, one after another: what      *)
(* each render is given, and the module's exports as the render leaves     *)
(* them.  ssrLoadModule hands every transform of a file the same module.   *)
(***************************************************************************)
\* the story files whose transform reaches the render loop
RenderedFiles ==
  {f \in ModuleNames \cup {"Gallery"} :
     /\ isStoryId(ModuleId(f))
     /\ findFirstAstroImport(ProgramBody(f)).t # "null"
     /\ ~lacksFactoryMarker(metaOf(Exports(f)))}

\* one pass of the loop body merging into meta.args itself, as
\* Object.assign(meta.args, story.args) does
renderStoryMergingInPlace(exports, name, componentPath) ==
  LET meta == metaOf(exports)
      data == HandlerProps(componentPath, meta, ExportValue(exports, name))
  IN [data |-> data,
      options |-> containerOptions(data),
      exports |->
        [k \in DOMAIN exports |->
           IF exports[k].name = "default" /\ Get(meta, "args").t = "object"
           THEN [exports[k] EXCEPT !.value.v.args =
                   Obj(mergedArgs(meta, ExportValue(exports, name)))]
           ELSE exports[k]]]

\* one pass of the loop body and the handler's normalization for the story
\* exported as name: the props built for the handler, the options built
\* for the container, and the module's exports as they are left
renderStory(exports, name, componentPath) ==
  LET data == HandlerProps(componentPath, metaOf(exports), ExportValue(exports, name))
  IN [data |-> data, options |-> containerOptions(data), exports |-> exports]

\* the module and the renders so far of the file the last render was of
ModuleOf(call, f) ==
  IF call.op = "renderStory" /\ call.file = f
  THEN [exports |-> call.exports, rendered |-> call.rendered]
  ELSE [exports |-> Exports(f), rendered |-> <<>>]

\* the story of file f at position k of its exports is rendered
renderStoryCall(f, k) ==
  /\ k \in DOMAIN ModuleOf(lastCall, f).exports
  /\ Len(ModuleOf(lastCall, f).rendered) < MaxRenders
  /\ LET m == ModuleOf(lastCall, f)
         export == m.exports[k]
     IN /\ isStoryExport(export)
        /\ ~overridesComponent(metaOf(m.exports), export.value)
        /\ LET r == renderStory(m.exports, export.name,
                      ResolvedId(findFirstAstroImport(ProgramBody(f)).source))
           IN lastCall' = [op |-> "renderStory", file |-> f,
                           rendered |-> Append(m.rendered, export.name),
                           data |-> r.data, options |-> r.options,
                           exports |-> r.exports]
  /\ UNCHANGED <<viteServer, handler, assetRefIds, tasks, builds, created,
                 closes, transforms, emitted, phase, ws, hooks, isBuild>>

NextRenderInputs ==
  \E f \in RenderedFiles : \E k \in DOMAIN Exports(f) : renderStoryCall(f, k)

SpecRenderInputs == Init /\ [][NextRenderInputs]_vars

(***************************************************************************)
(* Properties.                                                             *)
(***************************************************************************)
\* the transform calls that have been made and not yet handed back
Calls == {i \in Slots : tasks[i].pc # "idle"}

\* C1: if an initialization step throws during buildStart, then until the
\* next lifecycle hook every transform call returns null at once, without
\* evaluating the story module.
C1_FailedStartDisables ==
  \A i \in Calls :
    tasks[i].startedIn = "failed" =>
      /\ tasks[i].pc = "returned"
      /\ tasks[i].result.t = "null"
      /\ tasks[i].evals = 0

\* C2: while a sandbox server is live no step creates another server or
\* replaces the live one: the handle only changes by being released.
C2_SingleInitialization ==
  [][viteServer # 0 => /\ created' = created
                       /\ viteServer' \in {viteServer, 0}]_vars

\* C3: when buildEnd has completed, the server handle and the handler are
\* null and every server created so far has been closed exactly once; every
\* transform called before buildStart or after buildEnd returns null.
C3_BuildEndReleases ==
  /\ phase = "idle" =>
       /\ viteServer = 0
       /\ handler = 0
       /\ \A n \in created : closes[n] = 1
  /\ \A i \in Calls :
       tasks[i].startedIn = "idle" =>
         tasks[i].pc = "returned" /\ tasks[i].result.t = "null"

\* a top-level statement that default-imports a .astro file
DefaultImportsAstro(node) ==
  /\ node.type = "ImportDeclaration"
  /\ node.source[Len(node.source)] = "astro"
  /\ \E k \in DOMAIN node.specifiers :
       node.specifiers[k].type = "ImportDefaultSpecifier"

\* the module id follows the story-file naming convention
FollowsStoryConvention(id) ==
  \E ext \in {"js", "jsx", "ts", "tsx", "mjs"} :
    Len(id) >= 3 /\ SubSeq(id, Len(id) - 1, Len(id)) = <<"stories", ext>>

\* C4: for a story file none of whose top-level statements default-imports
\* a .astro file the discoverer returns none, and the transform call
\* returns null at once with no ssrLoadModule call for the file.
C4_NoAstroImportNeverEvaluated ==
  \A i \in Calls :
    LET body == ProgramBody(tasks[i].file) IN
    (/\ FollowsStoryConvention(ModuleId(tasks[i].file))
     /\ \A k \in DOMAIN body : ~DefaultImportsAstro(body[k]))
    => /\ findFirstAstroImport(body).t = "null"
       /\ tasks[i].pc = "returned"
       /\ tasks[i].result.t = "null"
       /\ tasks[i].evals = 0

\* a story file without a default .astro import went through the
\* discoverer of a ready plugin
C4_Witness ==
  \E i \in Calls :
    /\ tasks[i].file = "Plain"
    /\ tasks[i].startedIn = "ready"
    /\ tasks[i].parses = 1
    /\ tasks[i].evals = 0
    /\ tasks[i].result.t = "null"

\* C5: for a module id outside the story-file naming convention the
\* transform call returns null at once, in every plugin state, with no
\* parse, resolve, evaluation, render call or asset emission.
C5_NonStoryPassThrough ==
  \A i \in Calls :
    ~FollowsStoryConvention(ModuleId(tasks[i].file))
    => /\ tasks[i].pc = "returned"
       /\ tasks[i].result.t = "null"
       /\ tasks[i].parses = 0
       /\ tasks[i].resolves = 0
       /\ tasks[i].evals = 0
       /\ tasks[i].calls = <<>>
       /\ tasks[i].emits = 0

\* a .stories.mdx module and a .tsx module were both passed through by a
\* plugin whose sandbox and handler were live
C5_Witness ==
  \E i, j \in Calls :
    /\ tasks[i].file = "Docs" /\ tasks[j].file = "Button"
    /\ tasks[i].startedIn = "ready" /\ tasks[j].startedIn = "ready"
    /\ handler # 0 /\ viteServer # 0
    /\ tasks[i].result.t = "null" /\ tasks[j].result.t = "null"

\* the story exports of an evaluated module, and its meta
StoriesOf(f) == storyNames(Exports(f))
MetaOf(f) == metaOf(Exports(f))

\* the own keys of an args value; none when it is missing
KeysOf(x) == IF x.t = "object" THEN DOMAIN x.v ELSE {}

\* the story export sets a component that is not the very factory of meta
DeclaresOtherComponent(f, story) ==
  LET c == Get(story, "component")
      m == Get(MetaOf(f), "component")
  IN c.t = "function" /\ (m.t # "function" \/ c.ref # m.ref)

\* the transform call got its module evaluated and the default export's
\* component carries the factory marker
Qualified(t) ==
  /\ t.loaded
  /\ Get(Get(MetaOf(t.file), "component"), "isAstroComponentFactory") = Bool(TRUE)

\* the export names the returned code injects __astroPrerendered into
InjectedNames(t) ==
  IF t.result.t = "code"
  THEN {t.result.injections[k].name : k \in DOMAIN t.result.injections}
  ELSE {}

\* the export names the render handler was called for
CalledNames(t) == {t.calls[k].name : k \in DOMAIN t.calls}

\* the call made for an export name
CallFor(t, name) == t.calls[CHOOSE k \in DOMAIN t.calls : t.calls[k].name = name]

\* C6: a story that sets a component other than the identical
\* meta.component is never passed to the render handler and never receives
\* __astroPrerendered; every other story of the file is passed to the
\* handler and receives the HTML its render returns.
C6_OverridingStoryExcluded ==
  \A i \in Calls :
    LET t == tasks[i] IN
    \A k \in DOMAIN StoriesOf(t.file) :
      LET e == StoriesOf(t.file)[k] IN
      IF DeclaresOtherComponent(t.file, e.value)
      THEN /\ e.name \notin CalledNames(t)
           /\ e.name \notin InjectedNames(t)
           /\ \A p \in DOMAIN t.prerendered : t.prerendered[p].name # e.name
      ELSE (t.pc = "returned" /\ Qualified(t)) =>
             /\ e.name \in CalledNames(t)
             /\ e.name \in InjectedNames(t) <=> CallFor(t, e.name).outcome = "html"

\* a file with an overriding story (a twin factory with equal fields), a
\* story without component and a story with the identical component was
\* transformed: only the last two were rendered and injected
C6_Witness ==
  \E i \in Calls :
    /\ tasks[i].file = "Merge"
    /\ tasks[i].pc = "returned"
    /\ CalledNames(tasks[i]) = {"WithArgs", "Same"}
    /\ InjectedNames(tasks[i]) = {"WithArgs", "Same"}

\* C7: the props of every render call are the shallow merge of meta.args
\* and story.args, the story's value winning for a key of both and taken
\* whole; a missing args is an empty map; {a:1,b:2} with {b:3,c:4} gives
\* {a:1,b:3,c:4}.
C7_ShallowMergeStoryWins ==
  \A i \in Calls :
    \A k \in DOMAIN tasks[i].calls :
      LET call == tasks[i].calls[k]
          f == tasks[i].file
          ma == Get(MetaOf(f), "args")
          sa == Get(ExportValue(Exports(f), call.name), "args")
          props == call.data.args
      IN /\ props.t = "object"
         /\ DOMAIN props.v = (KeysOf(ma) \cup KeysOf(sa)) \ {"slots"}
         /\ \A key \in DOMAIN props.v :
              props.v[key] = IF key \in KeysOf(sa) THEN sa.v[key] ELSE ma.v[key]
         /\ (f = "Merge" /\ call.name = "WithArgs") =>
              props = Obj([a |-> Num(1), b |-> Num(3), c |-> Num(4)])

\* the handler was called with {a:1,b:3,c:4} for the story with args
\* {b:3,c:4}, with meta's {a:1,b:2} for the story without args, and with
\* the story's {x:1} in a file whose meta has no args
C7_Witness ==
  \E i, j \in Calls :
    /\ tasks[i].file = "Merge" /\ tasks[j].file = "Bare"
    /\ Len(tasks[i].calls) = 2 /\ Len(tasks[j].calls) = 1
    /\ tasks[i].calls[1].data.args = Obj([a |-> Num(1), b |-> Num(3), c |-> Num(4)])
    /\ tasks[i].calls[2].data.args = Obj([a |-> Num(1), b |-> Num(2)])
    /\ tasks[j].calls[1].data.args = Obj([x |-> Num(1)])

\* the slots value of the merged args of a story; undefined when absent
MergedSlots(f, name) ==
  LET ma == Get(MetaOf(f), "args")
      sa == Get(ExportValue(Exports(f), name), "args")
  IN IF "slots" \in KeysOf(sa) THEN sa.v["slots"]
     ELSE IF "slots" \in KeysOf(ma) THEN ma.v["slots"]
     ELSE Undefined

\* the slots a render call must carry
ExpectedSlots(f, name) ==
  IF MergedSlots(f, name).t \in {"undefined", "null"} THEN Obj(EmptyMap)
  ELSE MergedSlots(f, name)

\* C8: in every render call the props have no key slots and the merged
\* slots value is passed separately, as {} when it is absent, undefined or
\* null; the container is given the same props without slots and slots.
C8_SlotsStrippedAndDefaulted ==
  \A i \in Calls :
    /\ \A k \in DOMAIN tasks[i].calls :
         LET call == tasks[i].calls[k] IN
         /\ "slots" \notin DOMAIN call.data.args.v
         /\ call.data.slots = ExpectedSlots(tasks[i].file, call.name)
    /\ \A p \in DOMAIN tasks[i].prerendered :
         LET entry == tasks[i].prerendered[p] IN
         /\ "slots" \notin DOMAIN entry.html.options.props
         /\ entry.html.options.slots = ExpectedSlots(tasks[i].file, entry.name)

\* stories whose merged slots are null, undefined and a slot map were
\* rendered: the first two with slots {}, the third with the map, and a
\* story of a file without any slots with {}
C8_Witness ==
  \E i, j \in Calls :
    /\ tasks[i].file = "Slots" /\ tasks[j].file = "Card"
    /\ Len(tasks[i].prerendered) = 3 /\ Len(tasks[j].prerendered) = 1
    /\ tasks[i].prerendered[1].html.options.slots = Obj(EmptyMap)
    /\ tasks[i].prerendered[2].html.options.slots = Obj(EmptyMap)
    /\ tasks[i].prerendered[3].html.options.slots = Obj([default |-> Str("m")])
    /\ tasks[j].calls[1].data.slots = Obj(EmptyMap)

\* the names of the story exports the loop has to render, in export order
RECURSIVE RenderableNames(_, _)
RenderableNames(f, stories) ==
  IF stories = <<>> THEN <<>>
  ELSE IF DeclaresOtherComponent(f, Head(stories).value)
       THEN RenderableNames(f, Tail(stories))
       ELSE <<Head(stories).name>> \o RenderableNames(f, Tail(stories))

\* the names of the calls made so far, in call order
CallSequence(t) == [k \in DOMAIN t.calls |-> t.calls[k].name]

\* C9: during one transform the story module is evaluated at most once and
\* the handler is called at most once per story, in export order; when the
\* transform of a qualifying file returns, the module was evaluated exactly
\* once and the handler was called exactly once for every non-excluded
\* story, whether the call returned HTML or threw (a call on a handler that
\* buildEnd has released throws and is not repeated either).  For one
\* story Default under meta args {title:"Hi"} that is one call with props
\* {title:"Hi"} and slots {}.
C9_EvaluatedAndRenderedOnce ==
  \A i \in Calls :
    LET t == tasks[i]
        expected == RenderableNames(t.file, StoriesOf(t.file))
    IN /\ t.evals <= 1
       /\ Len(t.calls) <= Len(expected)
       /\ CallSequence(t) = SubSeq(expected, 1, Len(t.calls))
       /\ t.loaded => t.evals = 1
       /\ (t.pc = "returned" /\ Qualified(t)) => CallSequence(t) = expected
       /\ (t.file = "Card" /\ t.pc = "returned" /\ Qualified(t)) =>
            /\ Len(t.calls) = 1
            /\ t.calls[1].name = "Default"
            /\ t.calls[1].data.args = Obj([title |-> Str("Hi")])
            /\ t.calls[1].data.slots = Obj(EmptyMap)

\* the file with the single story Default was transformed with one
\* evaluation and one successful render, and a file of two renderable
\* stories with one evaluation, one render that threw and one that did not
C9_Witness ==
  \E i, j \in Calls :
    /\ tasks[i].file = "Card" /\ tasks[j].file = "Merge"
    /\ tasks[i].pc = "returned" /\ tasks[j].pc = "returned"
    /\ tasks[i].evals = 1 /\ tasks[j].evals = 1
    /\ Len(tasks[i].calls) = 1 /\ tasks[i].calls[1].outcome = "html"
    /\ Len(tasks[j].calls) = 2
    /\ tasks[j].calls[1].live /\ tasks[j].calls[1].outcome = "threw"
    /\ tasks[j].calls[2].outcome = "html"

\* C10: when the render of one story throws, the transform still returns
\* (null or code): the story gets no injected HTML, every later story of
\* the file is still passed to the handler, and the code returned for any
\* file injects exactly the stories of that file whose render returned
\* HTML, whatever failed in this or in another transform.
C10_RenderFailureIsolated ==
  \A i \in Calls :
    LET t == tasks[i]
        expected == RenderableNames(t.file, StoriesOf(t.file))
    IN /\ \A k \in DOMAIN t.calls :
            t.calls[k].outcome = "threw" =>
              /\ \A p \in DOMAIN t.prerendered :
                   t.prerendered[p].name # t.calls[k].name
              /\ t.pc = "returned" => Len(t.calls) = Len(expected)
       /\ t.pc = "returned" =>
            /\ t.result.t \in {"null", "code"}
            /\ InjectedNames(t) =
                 {t.calls[k].name : k \in {n \in DOMAIN t.calls :
                                             t.calls[n].outcome = "html"}}
            /\ t.result.t = "null" <=> InjectedNames(t) = {}

\* the first render of a file threw with the handler live, the next story
\* of that file was rendered and injected, and the transform of another
\* file in the same build returned code as well
C10_Witness ==
  \E i, j \in Calls :
    /\ i # j
    /\ tasks[i].file = "Merge" /\ tasks[i].pc = "returned"
    /\ Len(tasks[i].calls) = 2
    /\ tasks[i].calls[1].live /\ tasks[i].calls[1].outcome = "threw"
    /\ InjectedNames(tasks[i]) = {"Same"}
    /\ tasks[j].pc = "returned" /\ tasks[j].result.t = "code"
    /\ tasks[i].startedIn = "ready" /\ tasks[j].startedIn = "ready"

\* the transform call whose ssrLoadModule call was made and threw
EvaluationFailed(t) == t.evals = 1 /\ ~t.loaded /\ t.pc # "evaluating"

\* C11: when the evaluation of a story module throws, the transform call
\* returns null in that very step, with no render call and no asset
\* emission; the step leaves the server handle, the handler, the table and
\* every other transform call as they were; and a transform of a story
\* file called while the failed call is still held, on a live plugin,
\* goes on to resolve its import instead of returning null.
C11_EvaluationFailureSkipsFile ==
  /\ [](\A i \in Calls :
          EvaluationFailed(tasks[i]) =>
            /\ tasks[i].pc = "returned"
            /\ tasks[i].result.t = "null"
            /\ tasks[i].calls = <<>>
            /\ tasks[i].prerendered = <<>>
            /\ tasks[i].emits = 0)
  /\ [][\A i \in Slots :
          /\ (tasks[i].pc = "evaluating" /\ EvaluationFailed(tasks'[i])) =>
               /\ UNCHANGED <<viteServer, handler, assetRefIds, emitted,
                              created, closes, phase>>
               /\ \A j \in Slots \ {i} : tasks'[j] = tasks[j]
          /\ (/\ EvaluationFailed(tasks[i])
              /\ handler # 0 /\ viteServer # 0) =>
               \A j \in Slots \ {i} :
                 (/\ tasks[j].pc = "idle" /\ tasks'[j].pc # "idle"
                  /\ FollowsStoryConvention(ModuleId(tasks'[j].file))
                  /\ \E k \in DOMAIN ProgramBody(tasks'[j].file) :
                       DefaultImportsAstro(ProgramBody(tasks'[j].file)[k]))
                 => tasks'[j].pc = "resolving"]_vars

\* the evaluation of one story file threw while the plugin was ready; the
\* plugin is still live and the transform of another file has returned
\* code with pre-rendered HTML
C11_Witness ==
  \E i, j \in Calls :
    /\ i # j
    /\ EvaluationFailed(tasks[i]) /\ tasks[i].startedIn = "ready"
    /\ tasks[j].file # tasks[i].file
    /\ tasks[j].startedIn = "ready"
    /\ tasks[j].pc = "returned" /\ tasks[j].result.t = "code"
    /\ handler # 0 /\ viteServer # 0

\* x.parameters of an export of the evaluated module
ParametersOf(x) ==
  IF x.t = "object" THEN Get(x, "parameters")
  ELSE IF "parameters" \in DOMAIN x THEN x.parameters
  ELSE Undefined

\* the export names whose render returned HTML
RenderedNames(t) ==
  {t.calls[k].name : k \in {n \in DOMAIN t.calls : t.calls[n].outcome = "html"}}

\* the HTML transform stored for an export name
StoredHtml(t, name) ==
  t.prerendered[CHOOSE p \in DOMAIN t.prerendered : t.prerendered[p].name = name].html

\* C12: transform returns null exactly when no story produced HTML;
\* otherwise, once the returned code is evaluated, every export whose
\* render returned HTML has parameters.__astroPrerendered equal to that
\* HTML and keeps every other key of its parameters, and every other
\* export is as the story file defined it.
C12_InjectionSetsRenderedExports ==
  \A i \in Calls :
    LET t == tasks[i] IN
    (t.pc = "returned" /\ Qualified(t)) =>
      /\ t.result.t = "null" <=> RenderedNames(t) = {}
      /\ t.result.t = "code" =>
           \A k \in DOMAIN Exports(t.file) :
             LET e == Exports(t.file)[k]
                 after == evaluatedExport(t.file, e.name, t.result.injections)
                 before == Get(e.value, "parameters")
             IN IF e.name \in RenderedNames(t)
                THEN /\ ParametersOf(after).t = "object"
                     /\ "__astroPrerendered" \in DOMAIN ParametersOf(after).v
                     /\ ParametersOf(after).v["__astroPrerendered"]
                          = StoredHtml(t, e.name)
                     /\ \A key \in KeysOf(before) \ {"__astroPrerendered"} :
                          /\ key \in DOMAIN ParametersOf(after).v
                          /\ ParametersOf(after).v[key] = before.v[key]
                ELSE after = e.value

\* the default export of the file has no component, or a component
\* without a true isAstroComponentFactory
WithoutFactory(f) ==
  LET d == ExportValue(Exports(f), "default") IN
  \/ d.t # "object"
  \/ "component" \notin DOMAIN d.v
  \/ d.v["component"].t # "function"
  \/ "isAstroComponentFactory" \notin DOMAIN d.v["component"].props
  \/ d.v["component"].props["isAstroComponentFactory"] # Bool(TRUE)

\* C13: for a file whose evaluated default export has no component, or a
\* component without the factory marker, the handler is never called, no
\* asset is emitted, and the transform call returns null, whatever named
\* exports the file has.
C13_NoFactoryNoRender ==
  \A i \in Calls :
    WithoutFactory(tasks[i].file) =>
      /\ tasks[i].calls = <<>>
      /\ tasks[i].prerendered = <<>>
      /\ tasks[i].emits = 0
      /\ tasks[i].pc \notin {"rendering"}
      /\ tasks[i].pc = "returned" => tasks[i].result.t = "null"

\* a file whose component has no marker and a file whose default export
\* has no component, both with an object export, were evaluated by a ready
\* plugin and both transforms returned null without a render call
C13_Witness ==
  \E i, j \in Calls :
    /\ tasks[i].file = "Accordion" /\ tasks[j].file = "NoComponent"
    /\ tasks[i].loaded /\ tasks[j].loaded
    /\ handler # 0 /\ viteServer # 0
    /\ tasks[i].pc = "returned" /\ tasks[j].pc = "returned"
    /\ tasks[i].result.t = "null" /\ tasks[j].result.t = "null"
    /\ tasks[i].calls = <<>> /\ tasks[j].calls = <<>>
    /\ Len(StoriesOf("Accordion")) = 1 /\ Len(StoriesOf("NoComponent")) = 1

\* a named export that is a plain object: neither the default export,
\* nor a function, a primitive, null or an array
PlainObjectExport(e) == e.name # "default" /\ e.value.t = "object"

\* C14: an export that is not a named plain object (the default export, a
\* function, a primitive, null, an array) is never passed to the render
\* handler and never receives an injected __astroPrerendered.
C14_OnlyPlainObjectsAreStories ==
  \A i \in Calls :
    \A k \in DOMAIN Exports(tasks[i].file) :
      LET e == Exports(tasks[i].file)[k] IN
      ~PlainObjectExport(e) =>
        /\ e.name \notin CalledNames(tasks[i])
        /\ e.name \notin InjectedNames(tasks[i])
        /\ tasks[i].result.t = "code" =>
             evaluatedExport(tasks[i].file, e.name, tasks[i].result.injections)
               = e.value

\* the positions of a body that hold a /@fs URL of a readable file
ReadableAt(body) ==
  {k \in DOMAIN body : body[k].k = "fs" /\ body[k].path = "/abs/a.png"}

\* the positions of a text that hold a placeholder token
PlaceholdersAt(text) == {k \in DOMAIN text : text[k].k = "placeholder"}

\* the reference ids the table records, and the entry of each
RecordedIds == {e[2] : e \in assetRefIds}

\* every file name renderChunk asked for was known
AllResolved(names) == \A r \in DOMAIN names : names[r] = "name"

\* C15: for HTML with one readable /@fs reference, with or without a query
\* string, the rewritten HTML has the same tokens but for that reference,
\* which is now the one placeholder; the original URL does not occur; the
\* table records the placeholder with the emitted reference id; and
\* renderChunk of the rewritten HTML, with the file name of the reference
\* id known, returns it with the final name in place of the placeholder,
\* exactly once.
C15_AssetRoundTrip ==
  /\ []((lastCall.op = "rewrite" /\ Cardinality(ReadableAt(lastCall.input)) = 1)
        => LET at == CHOOSE k \in ReadableAt(lastCall.input) : TRUE
               out == lastCall.output
           IN /\ Len(out) = Len(lastCall.input)
              /\ PlaceholdersAt(out) = {at}
              /\ \A k \in DOMAIN out : out[k] # lastCall.input[at]
              /\ \A k \in DOMAIN out \ {at} : out[k] = lastCall.input[k]
              /\ out[at] = Placeholder(emitted)
              /\ <<Placeholder(emitted), emitted>> \in assetRefIds)
  /\ [][(/\ lastCall.op = "rewrite"
         /\ Cardinality(ReadableAt(lastCall.input)) = 1
         /\ lastCall'.op = "renderChunk"
         /\ lastCall'.code = lastCall.output
         /\ AllResolved(lastCall'.names))
        => LET at == CHOOSE k \in ReadableAt(lastCall.input) : TRUE
               res == lastCall'.result
           IN /\ res.t = "code"
              /\ Len(res.code) = Len(lastCall.output)
              /\ {k \in DOMAIN res.code : res.code[k] = FileName(emitted)} = {at}
              /\ PlaceholdersAt(res.code) = {}
              /\ \A k \in DOMAIN res.code \ {at} : res.code[k] = lastCall.input[k]]_vars

\* HTML with one reference to a readable file was rewritten, one file was
\* emitted, and the chunk that holds the rewritten HTML was rendered: the
\* final file name stands where the URL stood
C15_Witness ==
  /\ lastCall.op = "renderChunk"
  /\ emitted = 1
  /\ assetRefIds = {<<Placeholder(1), 1>>}
  /\ lastCall.code = <<Text("<img src="), Placeholder(1)>>
  /\ lastCall.result = [t |-> "code", code |-> <<Text("<img src="), FileName(1)>>]

\* the positions of a text that hold a placeholder the table records
RecordedAt(text) ==
  {k \in DOMAIN text : text[k].k = "placeholder" /\ <<text[k], text[k].refId>> \in assetRefIds}

\* the text a chunk has after a renderChunk call that did not throw
TextAfter(c) == IF c.result.t = "code" THEN c.result.code ELSE c.code

\* two calls got the same answer from getFileName for every reference id
\* both asked for
SameMapping(a, b) ==
  \A r \in (DOMAIN a) \cap (DOMAIN b) : a[r] = b[r]

\* C16: renderChunk called on the text a first call left, with the same
\* table and the same file names, changes nothing: it returns null or that
\* same text; and for a chunk with no recorded placeholder it returns null,
\* whatever the table holds.
C16_ChunkPassIdempotent ==
  /\ []((lastCall.op = "renderChunk" /\ RecordedAt(lastCall.code) = {})
        => lastCall.result.t = "null")
  /\ [][(/\ lastCall.op = "renderChunk"
         /\ lastCall.result.t # "threw"
         /\ lastCall'.op = "renderChunk"
         /\ lastCall'.code = TextAfter(lastCall)
         /\ SameMapping(lastCall.names, lastCall'.names))
        => /\ lastCall'.result.t # "threw"
           /\ TextAfter(lastCall') = TextAfter(lastCall)]_vars

\* the text returned by a first call, in which both occurrences of a
\* placeholder had been replaced, went through renderChunk again and was
\* returned as null
C16_Witness ==
  /\ lastCall.op = "renderChunk"
  /\ assetRefIds # {}
  /\ lastCall.code = <<FileName(1), FileName(1)>>
  /\ lastCall.result.t = "null"

\* C17: when getFileName gives a file name for every reference id it is
\* asked for, renderChunk does not throw, the text it leaves holds no
\* placeholder of the table, every occurrence of a recorded placeholder
\* has become the file name of its own reference id, and every other token
\* is as it was.
C17_PlaceholdersResolved ==
  (lastCall.op = "renderChunk" /\ AllResolved(lastCall.names)) =>
    /\ lastCall.result.t \in {"null", "code"}
    /\ Len(TextAfter(lastCall)) = Len(lastCall.code)
    /\ RecordedAt(TextAfter(lastCall)) = {}
    /\ \A k \in DOMAIN lastCall.code :
         TextAfter(lastCall)[k] =
           IF k \in RecordedAt(lastCall.code)
           THEN FileName(lastCall.code[k].refId)
           ELSE lastCall.code[k]

\* a chunk with the placeholders of two emitted files was rendered: each
\* became the file name of its own reference id
C17_Witness ==
  /\ lastCall.op = "renderChunk"
  /\ lastCall.code = <<Placeholder(2), Placeholder(1)>>
  /\ {<<Placeholder(1), 1>>, <<Placeholder(2), 2>>} \subseteq assetRefIds
  /\ lastCall.result = [t |-> "code", code |-> <<FileName(2), FileName(1)>>]

\* C18: when getFileName throws or gives nothing for the reference id of a
\* placeholder that a chunk holds, renderChunk does not throw, that
\* placeholder stays in the text as it was, and every other recorded
\* placeholder of the chunk is replaced by its file name.
C18_ResolutionFailOpen ==
  lastCall.op = "renderChunk" =>
    /\ lastCall.result.t # "threw"
    /\ \A k \in RecordedAt(lastCall.code) :
         TextAfter(lastCall)[k] =
           IF lastCall.names[lastCall.code[k].refId] = "name"
           THEN FileName(lastCall.code[k].refId)
           ELSE lastCall.code[k]

\* C19: in the rewritten HTML every /@fs reference to a file that cannot
\* be read stands exactly as it was, with no file emitted and no table
\* entry for it; every reference to a readable file of the same HTML is a
\* placeholder the table records; text is untouched; and the rewrite emits
\* and records exactly one file per readable reference.
C19_ReadFailureFailOpen ==
  /\ [](lastCall.op = "rewrite" =>
          /\ Len(lastCall.output) = Len(lastCall.input)
          /\ \A k \in DOMAIN lastCall.input :
               IF k \in ReadableAt(lastCall.input)
               THEN /\ lastCall.output[k].k = "placeholder"
                    /\ <<lastCall.output[k], lastCall.output[k].refId>> \in assetRefIds
               ELSE lastCall.output[k] = lastCall.input[k])
  /\ [][lastCall'.op = "rewrite" /\ lastCall' # lastCall =>
          /\ emitted' = emitted + Cardinality(ReadableAt(lastCall'.input))
          /\ assetRefIds \subseteq assetRefIds'
          /\ assetRefIds' \ assetRefIds =
               {<<lastCall'.output[k], lastCall'.output[k].refId>> :
                  k \in ReadableAt(lastCall'.input)}
          /\ Cardinality(assetRefIds' \ assetRefIds)
               = Cardinality(ReadableAt(lastCall'.input))]_vars

\* HTML that refers to a file that cannot be read and then to a readable
\* one was rewritten: the first reference is as it was, the second is a
\* placeholder, and one file was emitted
C19_Witness ==
  /\ lastCall.op = "rewrite"
  /\ lastCall.input = <<FsUrl("/abs/gone.png", ""), FsUrl("/abs/a.png", "")>>
  /\ lastCall.output = <<FsUrl("/abs/gone.png", ""), Placeholder(1)>>
  /\ emitted = 1
  /\ assetRefIds = {<<Placeholder(1), 1>>}

\* C20: a buildStart that follows a buildEnd of the same plugin instance
\* starts the new build with an empty placeholder table: no entry recorded
\* by an earlier build is left in it.
C20_TablePerBuild ==
  [][(phase = "idle" /\ builds >= 1 /\ builds' = builds + 1)
       => assetRefIds' = {}]_vars

\* the placeholders in the HTML a transform call has stored so far
StoredPlaceholders(t) ==
  UNION {{t.prerendered[p].html.body[k] :
            k \in PlaceholdersAt(t.prerendered[p].html.body)} :
         p \in DOMAIN t.prerendered}

\* how many entries the stories rendered so far record when their file is
\* transformed alone: one per readable reference of each rendered body
RECURSIVE AloneCount(_)
AloneCount(prerendered) ==
  IF prerendered = <<>> THEN 0
  ELSE Cardinality(ReadableAt(Body(Head(prerendered).html.options)))
         + AloneCount(Tail(prerendered))

\* C21: no step removes or changes an entry of the placeholder table; every
\* transform call has recorded one entry of its own per readable reference
\* of the HTML it has stored, as it does alone, whatever other call ran
\* between its awaits; and when the two calls made are both in flight or
\* returned, the table is exactly the entries of the one and of the other.
C21_TableAdditive ==
  /\ [](/\ Cardinality(assetRefIds) = emitted
        /\ \A i \in Calls :
             /\ tasks[i].emits = AloneCount(tasks[i].prerendered)
             /\ Cardinality(StoredPlaceholders(tasks[i])) = tasks[i].emits
             /\ \A ph \in StoredPlaceholders(tasks[i]) :
                  <<ph, ph.refId>> \in assetRefIds
             /\ \A j \in Calls \ {i} :
                  StoredPlaceholders(tasks[i]) \cap StoredPlaceholders(tasks[j]) = {}
        /\ (transforms = Cardinality(Calls)) =>
             assetRefIds =
               {<<ph, ph.refId>> : ph \in UNION {StoredPlaceholders(tasks[i]) : i \in Calls}})
  /\ [][assetRefIds \subseteq assetRefIds']_vars

\* the transforms of two story files, each with a readable image, ran in
\* the same build and both returned code: the table holds the entry of
\* each, and the file called first recorded the later reference id
C21_Witness ==
  /\ tasks[1].file = "Card" /\ tasks[2].file = "Bare"
  /\ tasks[1].pc = "returned" /\ tasks[2].pc = "returned"
  /\ tasks[1].result.t = "code" /\ tasks[2].result.t = "code"
  /\ StoredPlaceholders(tasks[1]) = {Placeholder(2)}
  /\ StoredPlaceholders(tasks[2]) = {Placeholder(1)}
  /\ assetRefIds = {<<Placeholder(1), 1>>, <<Placeholder(2), 2>>}

\* the transform call passed the guard of a ready plugin and the server
\* handle or the handler was released before it returned: its ssrLoadModule
\* call or one of its handler calls fell on null
TornDown(t) ==
  /\ t.startedIn = "ready"
  /\ \/ (t.componentPath # <<>> /\ t.evals = 0)
     \/ \E k \in DOMAIN t.calls : ~t.calls[k].live

\* the value a transform call may hand back: null, or the story file's
\* code followed by one injection per stored HTML
ValidResult(t) ==
  \/ t.result.t = "null"
  \/ /\ t.result.t = "code"
     /\ t.result.code = t.file
     /\ t.result.injections = injections(t.prerendered)
     /\ t.prerendered # <<>>

\* how far a transform call has come: its await point, then the number of
\* handler calls it has made
PcRank(pc) ==
  CASE pc = "resolving" -> 1 [] pc = "evaluating" -> 2
    [] pc = "rendering" -> 3 [] pc = "returned" -> 4 [] OTHER -> 5

Advances(t, u) ==
  \/ PcRank(u.pc) > PcRank(t.pc)
  \/ PcRank(u.pc) = PcRank(t.pc) /\ Len(u.calls) > Len(t.calls)

\* C22: a transform call that is in flight when buildEnd releases the
\* server and the handler never ends in an exception and never loops: the
\* first continuation that meets the null runs through to the return
\* (a TypeError inside a try block, logged), every step of a call moves it
\* forward, and what it returns is null or the code with the injections of
\* the stories rendered before the teardown.
C22_TeardownTolerated ==
  /\ [](\A i \in Calls :
          LET t == tasks[i] IN
          /\ t.pc \in {"resolving", "evaluating", "rendering", "returned"}
          /\ t.pc = "returned" => ValidResult(t)
          /\ TornDown(t) =>
               /\ t.pc = "returned"
               /\ \A k \in DOMAIN t.calls :
                    ~t.calls[k].live => t.calls[k].outcome = "threw"
               /\ InjectedNames(t) = RenderedNames(t))
  /\ [][\A i \in Calls : tasks'[i] # tasks[i] => Advances(tasks[i], tasks'[i])]_vars

\* buildEnd ran while one transform awaited this.resolve and while another
\* awaited its first render: the first returned null without evaluating,
\* the second returned code with the story rendered before the teardown
\* and lost the one after it
C22_Witness ==
  \E i, j \in Calls :
    /\ phase = "idle" /\ handler = 0 /\ viteServer = 0
    /\ tasks[i].startedIn = "ready" /\ tasks[j].startedIn = "ready"
    /\ tasks[i].componentPath # <<>> /\ tasks[i].evals = 0
    /\ tasks[i].pc = "returned" /\ tasks[i].result.t = "null"
    /\ tasks[j].file = "Merge" /\ tasks[j].pc = "returned"
    /\ Len(tasks[j].calls) = 2
    /\ tasks[j].calls[1].live /\ tasks[j].calls[1].outcome = "html"
    /\ ~tasks[j].calls[2].live
    /\ tasks[j].result.t = "code"
    /\ InjectedNames(tasks[j]) = {"WithArgs"}

\* C23: the patched createAstro called with 3 arguments (X, P, S) calls the
\* original with exactly (P, S); called with 2 arguments (P, S) it calls the
\* original with (P, S); either way it returns what the original returned,
\* so the component sees the processed props and the slots of the request.
C23_CreateAstroConvention ==
  lastCall.op = "handler" =>
    LET c == lastCall.createAstro
        P == Obj(lastCall.processedArgs)
        S == OrEmptyObject(lastCall.data.slots)
    IN /\ Len(c.args) \in {2, 3}
       /\ Len(c.args) = 3 => c.args = <<AstroSeed, P, S>>
       /\ Len(c.args) = 2 => c.args = <<P, S>>
       /\ c.origArgs = <<P, S>>
       /\ c.returned = origCreateAstro(<<P, S>>)
       /\ lastCall.html = renderedHtml(lastCall.data)

\* a component compiled to the 3-argument convention was rendered with an
\* image prop and slots: the original createAstro got the processed props
\* and the slots
C23_Witness ==
  /\ lastCall.op = "handler"
  /\ lastCall.convention = "v2"
  /\ lastCall.data.args = Obj([image |-> ImageValue])
  /\ Len(lastCall.createAstro.args) = 3
  /\ lastCall.createAstro.origArgs =
       <<Obj([image |-> Str("/x.png")]), DefaultSlot>>
  /\ lastCall.createAstro.returned.props = Obj([image |-> Str("/x.png")])

\* C24: the factory handed to the container is a new function whose
\* isAstroComponentFactory, moduleId and propagation are those of the
\* imported component, and the imported component is left as it was: after
\* every render the module cache holds the components it held at the start.
C24_WrapperCopiesAndPreserves ==
  lastCall.op = "handler" =>
    /\ lastCall.wrapped.ref # lastCall.imported.ref
    /\ \A k \in {"isAstroComponentFactory", "moduleId", "propagation"} :
         Get(lastCall.wrapped, k) = Get(lastCall.imported, k)
    /\ lastCall.imported = ComponentModules[lastCall.data.component]
    /\ lastCall.modules = ComponentModules

\* the component with a propagation hint was wrapped
C24_Witness ==
  /\ lastCall.op = "handler"
  /\ lastCall.imported = Layout
  /\ lastCall.wrapped.ref = "wrapped"
  /\ Get(lastCall.wrapped, "propagation") = Str("self")
  /\ Get(lastCall.wrapped, "moduleId") = Str("/src/Layout.astro")
  /\ lastCall.modules[<<"/src/Layout", "astro">>] = Layout

\* an image-metadata object: a string src and one of width, height, format
IsImageObject(v) ==
  /\ v.t = "object"
  /\ "src" \in DOMAIN v.v
  /\ v.v["src"].t = "string"
  /\ DOMAIN v.v \cap {"width", "height", "format"} # {}

\* the URL an image-metadata object stands for
UrlOf(v) == IF v.v["src"].v # "" THEN v.v["src"] ELSE v.v["fsPath"]

\* an object with a string src and none of width, height, format
SrcOnlyObject(v) ==
  /\ v.t = "object"
  /\ "src" \in DOMAIN v.v
  /\ v.v["src"].t = "string"
  /\ DOMAIN v.v \cap {"width", "height", "format"} = {}

\* out is the map in with every image-metadata object that is reached
\* through keys of plain objects replaced by its URL, and every primitive
\* and src-only object as it was
RECURSIVE NormalizedThroughObjects(_, _)
NormalizedThroughObjects(in, out) ==
  /\ DOMAIN out = DOMAIN in
  /\ \A key \in DOMAIN in :
       LET v == in[key]
           w == out[key]
       IN IF IsImageObject(v) THEN w = UrlOf(v)
          ELSE IF v.t \in {"string", "number", "boolean", "null"} THEN w = v
          ELSE IF SrcOnlyObject(v) THEN w = v
          ELSE IF v.t = "object"
               THEN w.t = "object" /\ NormalizedThroughObjects(v.v, w.v)
          ELSE TRUE

\* C25: in the props the handler renders with, an image-metadata object
\* that was the value of a top-level key or of a key of a nested plain
\* object is its src string (its fsPath when src is empty); strings,
\* numbers, booleans, null and src-only objects are as they were.
C25_ImageMetadataNormalized ==
  (lastCall.op = "handler" /\ lastCall.data.args.t = "object") =>
    NormalizedThroughObjects(lastCall.data.args.v, lastCall.processedArgs)

\* an image with an empty src, two plain objects down, came out as its
\* fsPath
C25_Witness ==
  /\ lastCall.op = "handler"
  /\ lastCall.data.args =
       Obj([image |-> Obj([inner |-> Obj([inner |-> ImageNoSrc])])])
  /\ lastCall.processedArgs =
       [image |-> Obj([inner |-> Obj([inner |-> Str("/abs/x.png")])])]

\* w is v with every array still an array of the same length and every
\* image-metadata element of an array replaced by its URL
RECURSIVE NormalizedThroughArrays(_, _)
NormalizedThroughArrays(v, w) ==
  IF v.t = "array"
  THEN /\ w.t = "array"
       /\ Len(w.v) = Len(v.v)
       /\ \A i \in DOMAIN v.v :
            IF IsImageObject(v.v[i]) THEN w.v[i] = UrlOf(v.v[i])
            ELSE NormalizedThroughArrays(v.v[i], w.v[i])
  ELSE IF v.t = "object" /\ ~IsImageObject(v)
  THEN /\ w.t \in {"object", "array"}
       /\ \A key \in DOMAIN v.v :
            key \in DOMAIN Entries(w) =>
              NormalizedThroughArrays(v.v[key], Entries(w)[key])
  ELSE TRUE

\* C26: in the props the handler renders with, an image-metadata object
\* that was an element of an array is its src string, and every array,
\* also one nested in an array, is an array of the same length.
C26_NormalizedThroughArrays ==
  (lastCall.op = "handler" /\ lastCall.data.args.t = "object") =>
    \A key \in DOMAIN lastCall.data.args.v :
      NormalizedThroughArrays(lastCall.data.args.v[key],
                              lastCall.processedArgs[key])

\* the top-level statements the claim says are found: import declarations
\* with a default specifier and a source that ends with .astro
DefaultAstroImports(body) ==
  {k \in DOMAIN body :
     LET node == body[k] IN
     /\ node.type = "ImportDeclaration"
     /\ node.source[Len(node.source)] = "astro"
     /\ \E n \in DOMAIN node.specifiers :
          node.specifiers[n].type = "ImportDefaultSpecifier"}

\* the default specifier of an import declaration that has one
DefaultSpecifierOf(node) ==
  LET specs == node.specifiers
  IN specs[CHOOSE n \in DOMAIN specs : specs[n].type = "ImportDefaultSpecifier"]

\* C29: findFirstAstroImport returns the local name and the source of the
\* first top-level import declaration that has a default specifier and a
\* source ending with .astro, whatever stands before it (an .astro import
\* without default specifier, an import of another extension, a statement
\* with a dynamic import inside), and null when there is none.
C29_FirstDefaultAstroImport ==
  lastCall.op = "findFirstAstroImport" =>
    LET found == DefaultAstroImports(lastCall.body) IN
    IF found = {} THEN lastCall.result = JsNull
    ELSE LET first == lastCall.body[CHOOSE n \in found : \A m \in found : n <= m]
         IN /\ lastCall.result.t = "import"
            /\ lastCall.result.local = DefaultSpecifierOf(first).local
            /\ lastCall.result.source = first.source

\* a program with a named .astro import, then the default import of Hero,
\* then the default import of Card: Hero is returned
C29_Witness ==
  /\ lastCall.op = "findFirstAstroImport"
  /\ lastCall.body = <<Node(3), Node(2), Node(1)>>
  /\ lastCall.result =
       [t |-> "import", local |-> "Hero", source |-> <<"./Hero", "astro">>]

\* the responses sent for a request id
ResponsesFor(id) == {k \in DOMAIN ws.sent : ws.sent[k].id = id}

\* a response that carries the error banner
IsBanner(msg) == "banner" \in DOMAIN msg.html

\* C27: every render request whose handler call has settled has exactly
\* one response, a pending one has none; a response carries the id of a
\* request and either the HTML rendered from that request's component,
\* args and slots or the error banner; no listener ends in a rejection;
\* and a response, once sent, stays as it was sent, whatever the number of
\* requests in flight and the order in which they settle.
C27_OneResponsePerRequest ==
  /\ [](/\ ws.failed = {}
        /\ ws.pending \subseteq DOMAIN ws.requests
        /\ \A id \in DOMAIN ws.requests :
             /\ ws.requests[id].id = id
             /\ Cardinality(ResponsesFor(id)) = IF id \in ws.pending THEN 0 ELSE 1
        /\ \A k \in DOMAIN ws.sent :
             /\ ws.sent[k].id \in DOMAIN ws.requests
             /\ \/ IsBanner(ws.sent[k])
                \/ ws.sent[k].html = renderedHtml(ws.requests[ws.sent[k].id]))
  /\ [][SubSeq(ws'.sent, 1, Len(ws.sent)) = ws.sent]_vars

\* three requests were in flight at once; the third settled first with
\* its HTML, the first failed, and the second is still pending
C27_Witness ==
  /\ Len(ws.requests) = 3
  /\ ws.requests[1].args # ws.requests[3].args
  /\ ws.pending = {2}
  /\ Len(ws.sent) = 2
  /\ ws.sent[1] = [html |-> renderedHtml(ws.requests[3]), id |-> 3]
  /\ ws.sent[2].id = 1
  /\ IsBanner(ws.sent[2])

\* C28: in the error banner every <, > and & of the error message stands
\* as its HTML entity: no character of the pre element's text is a bare
\* <, > or &.
C28_BannerEscaped ==
  \A k \in DOMAIN ws.sent :
    IsBanner(ws.sent[k]) =>
      \A j \in DOMAIN ws.sent[k].html.pre :
        ws.sent[k].html.pre[j] \notin {"<", ">", "&"}

\* the handler calls of a transform that have not settled
InFlight(t) == {k \in DOMAIN t.calls : t.calls[k].outcome = "pending"}

\* the names of the calls that returned HTML, in call order
RECURSIVE HtmlSequence(_)
HtmlSequence(calls) ==
  IF calls = <<>> THEN <<>>
  ELSE IF Head(calls).outcome = "html"
       THEN <<Head(calls).name>> \o HtmlSequence(Tail(calls))
       ELSE HtmlSequence(Tail(calls))

\* the names the transform has stored HTML for, in the order it stored them
StoredSequence(t) == [p \in DOMAIN t.prerendered |-> t.prerendered[p].name]

\* C30: within one transform the module is evaluated before the first
\* handler call; at most one handler call is in flight, and it is the last
\* one made; the HTML of every render that has settled is already
\* rewritten and stored when the next call is made; and the code with the
\* injections exists only when the call has returned with every story that
\* is to be rendered called and settled.  Transforms of different files
\* are at their await points at the same time.
C30_SequentialWithinFile ==
  \A i \in Calls :
    LET t == tasks[i]
        expected == RenderableNames(t.file, StoriesOf(t.file))
    IN /\ t.calls # <<>> => (t.loaded /\ t.evals = 1)
       /\ t.pc \in {"resolving", "evaluating"} =>
            (t.calls = <<>> /\ t.prerendered = <<>>)
       /\ InFlight(t) \subseteq {Len(t.calls)}
       /\ t.pc = "rendering" <=> InFlight(t) # {}
       /\ StoredSequence(t) = HtmlSequence(t.calls)
       /\ \A p \in DOMAIN t.prerendered :
            ReadableAt(t.prerendered[p].html.body) = {}
       /\ t.result.t = "code" =>
            /\ t.pc = "returned"
            /\ InFlight(t) = {}
            /\ CallSequence(t) = expected

\* the transform of a file with two stories has stored the rewritten HTML
\* of its first story and awaits the render of its second, while the
\* transform of another file awaits its own render
C30_Witness ==
  /\ tasks[1].file = "Merge" /\ tasks[2].file = "Card"
  /\ tasks[1].pc = "rendering" /\ tasks[2].pc = "rendering"
  /\ Len(tasks[1].calls) = 2
  /\ tasks[1].calls[1].outcome = "html"
  /\ Len(tasks[1].prerendered) = 1
  /\ tasks[1].prerendered[1].name = tasks[1].calls[1].name
  /\ InFlight(tasks[1]) = {2}
  /\ InFlight(tasks[2]) = {1}

\* C35: in every reachable state a handler that is not null goes with a
\* server handle that is not null: the handler is never live without the
\* server it was loaded from.
C35_HandlerImpliesServer == handler # 0 => viteServer # 0

\* C36: whenever transform returns a result, the result's code is the
\* input source unchanged followed by appended statements only.
C36_SourceKeptAndAppended ==
  \A i \in Calls :
    LET t == tasks[i] IN
    (t.pc = "returned" /\ t.result.t = "code") =>
      /\ t.result.code = t.file
      /\ t.result.injections = injections(t.prerendered)
      /\ t.result.injections # <<>>

\* a transform has returned the source of its file with two statements
\* appended
C36_Witness ==
  \E i \in Calls :
    /\ tasks[i].pc = "returned"
    /\ tasks[i].result.t = "code"
    /\ tasks[i].result.code = tasks[i].file
    /\ Len(tasks[i].result.injections) = 2

\* the component path a transform of file f resolves
OwnComponentPath(f) == ResolvedId(findFirstAstroImport(ProgramBody(f)).source)

\* the handler props of the story of file f exported as name
OwnHandlerProps(f, name) ==
  HandlerProps(OwnComponentPath(f), MetaOf(f), ExportValue(Exports(f), name))

\* the story export names of file f
OwnNames(f) == {StoriesOf(f)[k].name : k \in DOMAIN StoriesOf(f)}

\* C39: under every interleaving of the transforms of story files, the
\* handler calls of a transform carry its own file's component path and
\* args, the HTML it stores and injects was rendered from those calls, and
\* every export name it injects into is an export of its own file.
C39_TransformsIsolated ==
  \A i \in Calls :
    LET t == tasks[i] IN
    /\ \A k \in DOMAIN t.calls :
         /\ t.calls[k].name \in OwnNames(t.file)
         /\ t.calls[k].data = OwnHandlerProps(t.file, t.calls[k].name)
    /\ \A p \in DOMAIN t.prerendered :
         LET e == t.prerendered[p] IN
         /\ e.name \in OwnNames(t.file)
         /\ e.name \in RenderedNames(t)
         /\ e.html.component = OwnComponentPath(t.file)
         /\ e.html.options = containerOptions(OwnHandlerProps(t.file, e.name))
    /\ t.result.t = "code" =>
         /\ InjectedNames(t) \subseteq OwnNames(t.file)
         /\ \A k \in DOMAIN t.result.injections :
              LiteralValue(t.result.injections[k].literal)
                = StoredHtml(t, t.result.injections[k].name)

\* the transforms of two different story files have both returned code
\* after their renders were under way at the same time
C39_Witness ==
  \E i, j \in Calls :
    /\ tasks[i].file # tasks[j].file
    /\ tasks[i].result.t = "code"
    /\ tasks[j].pc = "rendering"
    /\ tasks[j].prerendered # <<>>
    /\ tasks[i].calls[1].data # tasks[j].calls[1].data

\* the module id of a component path: its segments joined with dots
ModuleIdOf(path) ==
  IF path = <<"/src/Card", "astro">> THEN Str("/src/Card.astro")
  ELSE IF path = <<"/src/Hero", "astro">> THEN Str("/src/Hero.astro")
  ELSE Str("/src/components/helpers.astro")

\* C34: for every pre-rendered story the component path passed to the
\* render handler identifies the module of meta.component, also when the
\* story file default-imports several .astro files and meta.component is
\* not the first of them.
C34_PathOfMetaComponent ==
  \A i \in Calls :
    \A k \in DOMAIN tasks[i].calls :
      ModuleIdOf(tasks[i].calls[k].data.component)
        = Get(Get(MetaOf(tasks[i].file), "component"), "moduleId")

\* the code of the last renderChunk call with every placeholder of the
\* table replaced by the file name of its own reference id
OwnFileNames ==
  replaceAll(lastCall.code, TableOf(lastCall.refIds),
             [r \in lastCall.refIds |-> "name"])

\* no reference id of the table holds two underscores in a row
NoDelimiterInIds == \A r \in lastCall.refIds : \A k \in DOMAIN RefIdText(r) :
  RefIdText(r)[k] # "__"

C31_MarkerSetOnStubsOnly ==
  lastCall.op = "markerTransform" =>
    LET r == lastCall.result IN
    /\ r.t \in {"null", "code"}
    /\ r.t = "code" <=> (endsWithAstro(lastCall.id) /\ lastCall.stub)
    /\ r.t = "code" =>
         /\ markerDefaultExport(r) =
              [isAstroComponentFactory |-> TRUE, moduleId |-> lastCall.id]
         /\ ~AstroSourceList[lastCall.source].readable => r.styleCode = <<>>

\* in build mode the marker has rewritten the stub of an .astro module
\* whose source cannot be read
C31_Witness ==
  /\ lastCall.op = "markerTransform"
  /\ lastCall.build
  /\ lastCall.result.t = "code"
  /\ ~AstroSourceList[lastCall.source].readable
  /\ markerDefaultExport(lastCall.result).moduleId = lastCall.id

\* the ids the fonts fallback is to stub
FontModulePaths ==
  {VIRTUAL_ID, RUNTIME_VIRTUAL_ID,
   <<"astro/assets/fonts/runtime">>, <<"astro/assets/fonts/runtime.js">>}

\* the ids resolveId returns
ResolvedFontIds ==
  {resolveId(id).id : id \in {p \in FontModulePaths : resolveId(p).t = "id"}}

\* C32: resolveId resolves each of the four font module paths, load loads
\* every id resolveId returns as a stub module, and for every other id
\* resolveId and load return nothing.
C32_FontPathsStubbed ==
  /\ lastCall.op = "resolveId" =>
       /\ lastCall.id \in FontModulePaths <=> lastCall.result.t = "id"
       /\ lastCall.result.t = "id" => load(lastCall.result.id).t = "code"
       /\ lastCall.id \notin FontModulePaths => lastCall.result = Undefined
  /\ lastCall.op = "load" =>
       /\ lastCall.id \in ResolvedFontIds <=> lastCall.result.t = "code"
       /\ lastCall.id \notin ResolvedFontIds => lastCall.result = Undefined

\* load has returned the runtime stub for the id resolveId returned for
\* the package import path with .js
C32_Witness ==
  /\ lastCall.op = "load"
  /\ lastCall.id = resolveId(<<"astro/assets/fonts/runtime.js">>).id
  /\ lastCall.result = [t |-> "code", code |-> "FONTS_RUNTIME_STUB"]

\* the value the last test's story threw, when story() or story.run() threw
StoryThrew ==
  lastCall.direct.k = "throws"
    \/ (lastCall.direct.k = "returns" /\ lastCall.run.k = "throws")
ThrownByStory ==
  IF lastCall.direct.k = "throws" THEN ThrownByStoryList[lastCall.direct.n]
  ELSE ThrownByStoryList[lastCall.run.n]

\* the thrown error's message holds one of the two tolerated phrases
Tolerated(error) ==
  /\ error.hasMessage
  /\ \/ "renderToCanvas is not a function" \in error.message
     \/ "Client-only API called on the server side" \in error.message

\* the value the test takes as the render's result
RenderResult ==
  LET awaited == IF lastCall.run.k = "absent" THEN Undefined
                 ELSE StoryResultList[lastCall.run.n]
  IN IF Truthy(awaited) THEN awaited ELSE StoryResultList[lastCall.direct.n]

\* the result is an object, and one with a component has args
UsableResult ==
  /\ RenderResult \notin {Undefined, JsNull}
  /\ Truthy(Get(RenderResult, "component")) => Get(RenderResult, "args") # Undefined

\* C33 as stated: the test passes exactly when the story renders without
\* throwing or throws an error whose message holds 'renderToCanvas is not
\* a function' or 'Client-only API called on the server side'; it fails
\* for every other error.
C33_PassesOnRenderOrTolerated ==
  lastCall.op = "testStoryRenders" =>
    (lastCall.outcome.passed <=> (~StoryThrew \/ Tolerated(ThrownByStory)))

\* C33 amended: the test passes exactly when the story renders without
\* throwing and gives a result that is an object with args whenever it has
\* a component, or throws an error whose message holds one of the two
\* tolerated phrases; for a renderer not found, a missing renderer
\* parameter and every other error it fails with the matching message.
C33_PassesOnUsableRenderOrTolerated ==
  lastCall.op = "testStoryRenders" =>
    /\ lastCall.outcome.passed <=>
         IF StoryThrew THEN Tolerated(ThrownByStory) ELSE UsableResult
    /\ (StoryThrew /\ ThrownByStory.hasMessage /\ ~Tolerated(ThrownByStory)) =>
         lastCall.outcome.thrown =
           IF {"Renderer", "not found"} \subseteq ThrownByStory.message
           THEN "has a broken framework integration"
           ELSE IF "no renderer is specified" \in ThrownByStory.message
           THEN "is missing renderer parameter"
           ELSE "failed to render"

\* the test has passed for a story whose run rejects with the SSR-only
\* limitation after story() returned a component with args
C33_Witness ==
  /\ lastCall.op = "testStoryRenders"
  /\ lastCall.direct = Returns(4)
  /\ lastCall.run = Throws(2)
  /\ lastCall.outcome.passed

\* C38: every invocation of the wrapped factory puts one more patch on
\* the result's createAstro, and after n >= 1 patches a call with
\* ($$Astro, props, slots) and a call with (props, slots) both reach the
\* runtime's createAstro exactly once, with (props, slots).
C38_RepeatedPatchHarmless ==
  /\ lastCall.op = "wrapped" => lastCall.patches = lastCall.before + 1
  /\ (lastCall.op = "createAstro" /\ lastCall.patches >= 1) =>
       LET args == lastCall.args
           propsAndSlots == IF Len(args) = 3 THEN <<args[2], args[3]>> ELSE args
       IN /\ Len(args) \in {2, 3}
          /\ lastCall.origCalls = <<propsAndSlots>>

\* a component compiled to the 3-argument convention has called
\* createAstro on a result that was patched three times
C38_Witness ==
  /\ lastCall.op = "createAstro"
  /\ lastCall.patches = 3
  /\ lastCall.args = <<AstroSeed, PropsList[1], DefaultSlot>>
  /\ lastCall.origCalls = << <<PropsList[1], DefaultSlot>> >>

====
